---- MODULE Spec2Model ----
(***************************************************************************)
(* Model of the graph construction pipeline of model-visualizer:           *)
(*   - buildGraphFromIntrospection (src/lib/graph/graphqlTransformer.ts)   *)
(*   - the graph build effect of App (src/App.tsx)                         *)
(*   - buildFKLookupMap (src/utils/fkLookup.ts)                            *)
(* Strings are TLA+ strings; a TypeRef is the chain of kinds met when      *)
(* following ofType, with the name carried by the innermost reference.     *)
(***************************************************************************)
EXTENDS Integers, Sequences, FiniteSets, TLC

VARIABLES
    world,          \* index of the schema the fetch collaborator serves
    rootTypes,      \* argument rootTypes of buildGraphFromIntrospection
    typeData,       \* argument typeData (the caller's map)
    options,        \* argument options (TransformOptions)
    hasFetcher,     \* whether the argument fetchTypes was passed
    build,          \* locals of the running buildGraphFromIntrospection call
    app,            \* React state of App (selected root, type data, depth, filter, graphData)
    inflight,       \* build effects of App that were started, each with its cancelled flag
    fk,             \* locals of the running buildFKLookupMap call
    mapper,         \* the NameMapper that buildNameMapper is filling
    enh,            \* arguments and result of an enhanceEdgeWithFK call
    cache,          \* globalCache of useTypeFetcher
    calls,          \* calls of fetchType and fetchMultipleTypes
    infer           \* argument and result of an inferFieldName and an isJunctionTable call

vars == <<world, rootTypes, typeData, options, hasFetcher, build, app, inflight, fk, mapper, enh, cache, calls, infer>>

-----------------------------------------------------------------------------
(* Bounds of the model *)

MaxDepthBound == 3      \* options.maxDepth ranges over 1..MaxDepthBound
MaxRoots == 2           \* rootTypes has at most MaxRoots entries in the small worlds
BulkTypes == 102        \* number of leaf types of the wide world (more than the cap)
MaxRows == 3            \* foreign-key rows given to buildFKLookupMap
MaxTypenames == 3       \* type names given to buildNameMapper
MaxFetcherOps == 2      \* calls of fetchType, fetchMultipleTypes and clearCache in one behaviour
MaxEffects == 3         \* effect runs (root loads, graph builds) the App starts in one behaviour

(* Program constants *)

MAX_TYPES_PER_DEPTH == 100

SCALAR_TYPES ==
    {"String", "Int", "Float", "Boolean", "ID", "DateTime", "Date", "Time",
     "JSON", "UUID", "Decimal", "BigInt"}

-----------------------------------------------------------------------------
(* Generic helpers over sequences and maps *)

Range(s) == {s[i] : i \in 1..Len(s)}

EmptyMap == [x \in {} |-> 0]

\* Map.set for every entry of m2 on top of m1
MapMerge(m1, m2) ==
    [k \in (DOMAIN m1) \cup (DOMAIN m2) |-> IF k \in DOMAIN m2 THEN m2[k] ELSE m1[k]]

\* The loops over arrays are written as folds that split the array in halves; the
\* result is that of the left-to-right loop, the recursion stays shallow.
Left(s) == SubSeq(s, 1, Len(s) \div 2)
Right(s) == SubSeq(s, Len(s) \div 2 + 1, Len(s))

\* Array.from(new Set(...)): first occurrences, in insertion order
RECURSIVE Dedup(_)
Dedup(s) ==
    IF Len(s) <= 1 THEN s
    ELSE LET front == Dedup(Left(s))
             fresh(x) == x \notin Range(front)
         IN front \o SelectSeq(Dedup(Right(s)), fresh)

RECURSIVE FlattenSeq(_)
FlattenSeq(ss) ==
    IF ss = <<>> THEN <<>>
    ELSE IF Len(ss) = 1 THEN ss[1]
    ELSE FlattenSeq(Left(ss)) \o FlattenSeq(Right(ss))

startsWith(str, prefix) ==
    Len(str) >= Len(prefix) /\ SubSeq(str, 1, Len(prefix)) = prefix

endsWith(str, suffix) ==
    Len(str) >= Len(suffix) /\ SubSeq(str, Len(str) - Len(suffix) + 1, Len(str)) = suffix

-----------------------------------------------------------------------------
(* introspection.ts *)

Ref(chain, name) == [chain |-> chain, name |-> name]

Field(name, chain, target) == [name |-> name, type |-> Ref(chain, target)]

TypeInfo(name, kind, fields) ==
    [name |-> name, kind |-> kind, hasFields |-> TRUE, fields |-> fields]

TypeInfoNoFields(name, kind) ==
    [name |-> name, kind |-> kind, hasFields |-> FALSE, fields |-> <<>>]

unwrapType(typeRef) ==
    LET c == typeRef.chain
        i1 == IF c[1] = "NON_NULL" THEN 2 ELSE 1
        i2 == IF c[i1] = "LIST" THEN i1 + 1 ELSE i1
        i3 == IF c[i2] = "NON_NULL" THEN i2 + 1 ELSE i2
    IN [name |-> IF i3 = Len(c) THEN typeRef.name ELSE "Unknown",
        kind |-> c[i3],
        isList |-> c[i1] = "LIST",
        isNonNull |-> c[1] = "NON_NULL"]

isScalarType(typename) == typename \in SCALAR_TYPES

-----------------------------------------------------------------------------
(* graphqlTransformer.ts: helpers *)

\* an optional predicate (typeFilter, primaryModelChecker): absent, or the set it accepts
NoPredicate == [present |-> FALSE, accept |-> {}]
Predicate(S) == [present |-> TRUE, accept |-> S]

cleanTypenameForDisplay(typename) ==
    IF endsWith(typename, "Type") THEN SubSeq(typename, 1, Len(typename) - 4) ELSE typename

\* fieldName "" stands for null (both are falsy in fieldName || 'root')
generateNodeId(typename, fieldName, depth) ==
    LET fieldPart == IF fieldName = "" THEN "root" ELSE fieldName
    IN typename \o ":" \o fieldPart \o ":" \o ToString(depth)

\* mutant: without a checker every type counts as primary
createNode_DefaultPrimary(typename, fieldName, depth, isRoot, primaryModelChecker) ==
    LET cleanedTypename == cleanTypenameForDisplay(typename)
    IN [id |-> generateNodeId(typename, fieldName, depth),
        label |-> IF isRoot THEN cleanedTypename
                  ELSE IF fieldName # "" THEN fieldName ELSE cleanedTypename,
        typename |-> typename,
        depth |-> depth,
        isRoot |-> isRoot,
        isPrimaryModel |-> IF primaryModelChecker.present
                           THEN typename \in primaryModelChecker.accept
                           ELSE TRUE]

createNode(typename, fieldName, depth, isRoot, primaryModelChecker) ==
    LET cleanedTypename == cleanTypenameForDisplay(typename)
    IN [id |-> generateNodeId(typename, fieldName, depth),
        label |-> IF isRoot THEN cleanedTypename
                  ELSE IF fieldName # "" THEN fieldName ELSE cleanedTypename,
        typename |-> typename,
        depth |-> depth,
        isRoot |-> isRoot,
        isPrimaryModel |-> IF primaryModelChecker.present
                           THEN typename \in primaryModelChecker.accept
                           ELSE FALSE]

createEdge(parentId, childId, fieldName) ==
    [id |-> parentId \o "-[" \o fieldName \o "]-to-" \o childId,
     source |-> parentId,
     target |-> childId]

isRelationship(field) ==
    LET unwrapped == unwrapType(field.type)
    IN /\ ~startsWith(field.name, "__")
       /\ ~isScalarType(unwrapped.name)
       /\ unwrapped.kind \in {"OBJECT", "INTERFACE"}

extractRelationshipFields(type) ==
    IF ~type.hasFields THEN <<>> ELSE SelectSeq(type.fields, isRelationship)

filterAccepts(opts, typename) ==
    ~opts.typeFilter.present \/ typename \in opts.typeFilter.accept

visitKey(typename, depth) == typename \o ":" \o ToString(depth)

-----------------------------------------------------------------------------
(* graphqlTransformer.ts: Pass 1 and Pass 2 *)

\* mutant: createNodeForType without the visited check
createNodeForType_NoVisitedCheck(typename, currentDepth, allTypeData, opts, acc) ==
    IF currentDepth >= opts.maxDepth \/ typename \notin DOMAIN allTypeData
    THEN [acc EXCEPT !.visited = @ \cup {visitKey(typename, currentDepth)}]
    ELSE [acc EXCEPT
            !.visited = @ \cup {visitKey(typename, currentDepth)},
            !.nodes = Append(@, createNode(typename, "", currentDepth, currentDepth = 0,
                                           opts.primaryModelChecker))]

\* mutant: createNodeForType that pushes a node although the type data is missing
createNodeForType_KeepsMissing(typename, currentDepth, allTypeData, opts, acc) ==
    IF currentDepth >= opts.maxDepth \/ visitKey(typename, currentDepth) \in acc.visited
    THEN acc
    ELSE [acc EXCEPT
            !.visited = @ \cup {visitKey(typename, currentDepth)},
            !.nodes = Append(@, createNode(typename, "", currentDepth, currentDepth = 0,
                                           opts.primaryModelChecker))]

\* acc = [visited, nodes, stats]; the arrays and the stats object the caller passes in
createNodeForType(typename, currentDepth, allTypeData, opts, acc) ==
    IF currentDepth >= opts.maxDepth THEN acc
    ELSE IF visitKey(typename, currentDepth) \in acc.visited THEN acc
    ELSE LET visited2 == acc.visited \cup {visitKey(typename, currentDepth)}
         IN IF typename \notin DOMAIN allTypeData
            THEN [acc EXCEPT !.visited = visited2]
            ELSE LET typeInfo == allTypeData[typename]
                     node == createNode(typename, "", currentDepth, currentDepth = 0,
                                        opts.primaryModelChecker)
                     relationshipFields == extractRelationshipFields(typeInfo)
                     totalFields == IF typeInfo.hasFields THEN Len(typeInfo.fields) ELSE 0
                     filteredCount == totalFields - Len(relationshipFields)
                     perDepth == acc.stats.nodesPerDepth
                     old == IF currentDepth \in DOMAIN perDepth THEN perDepth[currentDepth] ELSE 0
                 IN [visited |-> visited2,
                     nodes |-> Append(acc.nodes, node),
                     stats |-> [acc.stats EXCEPT
                                  !.nodesPerDepth =
                                      MapMerge(perDepth, [d \in {currentDepth} |-> old + 1]),
                                  !.filteredNodes = @ + filteredCount]]

\* for (const typename of typesToProcess) createNodeForType(...)
RECURSIVE createNodesForTypes(_, _, _, _, _)
createNodesForTypes(typenames, currentDepth, allTypeData, opts, acc) ==
    IF typenames = <<>> THEN acc
    ELSE IF Len(typenames) = 1
    THEN createNodeForType(typenames[1], currentDepth, allTypeData, opts, acc)
    ELSE LET half == createNodesForTypes(Left(typenames), currentDepth, allTypeData, opts, acc)
         IN \* the first half is complete (its visited set is built) before the second starts
            IF acc.visited \subseteq half.visited
            THEN createNodesForTypes(Right(typenames), currentDepth, allTypeData, opts, half)
            ELSE half

\* nodeMap.get(key): the last node stored under typename:depth, or the empty sequence
nodeMapGet(nodes, key) ==
    LET hits == {i \in 1..Len(nodes) : visitKey(nodes[i].typename, nodes[i].depth) = key}
    IN IF hits = {} THEN <<>>
       ELSE <<nodes[CHOOSE i \in hits : \A j \in hits : j <= i]>>

\* mutant: the edge is pushed without looking the child node up
edgeForField_NoChildCheck(parentNode, field, nodes, opts) ==
    LET childTypename == unwrapType(field.type).name
    IN IF ~filterAccepts(opts, childTypename)
       THEN <<>>
       ELSE <<createEdge(parentNode.id,
                         generateNodeId(childTypename, "", parentNode.depth + 1),
                         field.name)>>

\* mutant: the child is looked up at the parent's depth
edgeForField_SameDepth(parentNode, field, nodes, opts) ==
    LET childTypename == unwrapType(field.type).name
        childNode == nodeMapGet(nodes, visitKey(childTypename, parentNode.depth))
    IN IF ~filterAccepts(opts, childTypename)
       THEN <<>>
       ELSE IF childNode # <<>>
            THEN <<createEdge(parentNode.id, childNode[1].id, field.name)>>
            ELSE <<>>

\* the body of the inner loop: the edge pushed for one relationship field, if any
edgeForField(parentNode, field, nodes, opts) ==
    LET childTypename == unwrapType(field.type).name
        childDepth == parentNode.depth + 1
        childNode == nodeMapGet(nodes, visitKey(childTypename, childDepth))
    IN IF ~filterAccepts(opts, childTypename)
       THEN <<>>
       ELSE IF childNode # <<>>
            THEN <<createEdge(parentNode.id, childNode[1].id, field.name)>>
            ELSE <<>>

\* the inner loop over the relationship fields of one primary parent node
RECURSIVE edgesOfFields(_, _, _, _)
edgesOfFields(parentNode, fields, nodes, opts) ==
    IF fields = <<>> THEN <<>>
    ELSE IF Len(fields) = 1 THEN edgeForField(parentNode, fields[1], nodes, opts)
    ELSE edgesOfFields(parentNode, Left(fields), nodes, opts)
            \o edgesOfFields(parentNode, Right(fields), nodes, opts)

\* mutant: the outer loop does not skip non-primary parents
edgesOfNode_IgnorePrimary(parentNode, nodes, allTypeData, opts) ==
    [edges |-> edgesOfFields(parentNode,
                   extractRelationshipFields(allTypeData[parentNode.typename]), nodes, opts),
     edgesSkippedNonPrimary |-> 0]

\* mutant: the skip count leaves out the fields typeFilter rejects
edgesOfNode_CountsAccepted(parentNode, nodes, allTypeData, opts) ==
    LET known == parentNode.typename \in DOMAIN allTypeData
        relationshipFields ==
            IF known THEN extractRelationshipFields(allTypeData[parentNode.typename])
            ELSE <<>>
        accepted(f) == filterAccepts(opts, unwrapType(f.type).name)
    IN IF ~parentNode.isPrimaryModel
       THEN [edges |-> <<>>,
             edgesSkippedNonPrimary |-> Len(SelectSeq(relationshipFields, accepted))]
       ELSE [edges |-> edgesOfFields(parentNode, relationshipFields, nodes, opts),
             edgesSkippedNonPrimary |-> 0]

\* the body of the outer loop: what one parent node adds to edges and to the skip count
edgesOfNode(parentNode, nodes, allTypeData, opts) ==
    LET known == parentNode.typename \in DOMAIN allTypeData
        relationshipFields ==
            IF known THEN extractRelationshipFields(allTypeData[parentNode.typename])
            ELSE <<>>
    IN IF ~parentNode.isPrimaryModel
       THEN [edges |-> <<>>, edgesSkippedNonPrimary |-> Len(relationshipFields)]
       ELSE [edges |-> edgesOfFields(parentNode, relationshipFields, nodes, opts),
             edgesSkippedNonPrimary |-> 0]

RECURSIVE edgesFrom(_, _, _, _)
edgesFrom(parents, nodes, allTypeData, opts) ==
    IF parents = <<>> THEN [edges |-> <<>>, edgesSkippedNonPrimary |-> 0]
    ELSE IF Len(parents) = 1 THEN edgesOfNode(parents[1], nodes, allTypeData, opts)
    ELSE LET l == edgesFrom(Left(parents), nodes, allTypeData, opts)
             r == edgesFrom(Right(parents), nodes, allTypeData, opts)
         IN [edges |-> l.edges \o r.edges,
             edgesSkippedNonPrimary |-> l.edgesSkippedNonPrimary + r.edgesSkippedNonPrimary]

\* mutant: only the root nodes are taken as parents
createEdgesBetweenNodes_RootsOnly(nodes, allTypeData, opts) ==
    LET root(n) == n.isRoot
    IN edgesFrom(SelectSeq(nodes, root), nodes, allTypeData, opts)

createEdgesBetweenNodes(nodes, allTypeData, opts) ==
    edgesFrom(nodes, nodes, allTypeData, opts)

\* mutant: the next frontier is collected without applying typeFilter
referencedBy_NoFilter(allTypeData, typename, opts) ==
    IF typename \notin DOMAIN allTypeData THEN <<>>
    ELSE LET fields == extractRelationshipFields(allTypeData[typename])
         IN [i \in 1..Len(fields) |-> unwrapType(fields[i].type).name]

\* mutant: only primary types contribute to the next frontier
referencedBy_PrimaryOnly(allTypeData, typename, opts) ==
    IF typename \notin DOMAIN allTypeData THEN <<>>
    ELSE IF ~(opts.primaryModelChecker.present /\ typename \in opts.primaryModelChecker.accept)
    THEN <<>>
    ELSE LET fields == extractRelationshipFields(allTypeData[typename])
             names == [i \in 1..Len(fields) |-> unwrapType(fields[i].type).name]
             accepted(n) == filterAccepts(opts, n)
         IN SelectSeq(names, accepted)

\* the names one type contributes to the next frontier
referencedBy(allTypeData, typename, opts) ==
    IF typename \notin DOMAIN allTypeData THEN <<>>
    ELSE LET fields == extractRelationshipFields(allTypeData[typename])
             names == [i \in 1..Len(fields) |-> unwrapType(fields[i].type).name]
             accepted(n) == filterAccepts(opts, n)
         IN SelectSeq(names, accepted)

getReferencedTypes(allTypeData, typenames, opts) ==
    Dedup(FlattenSeq([i \in 1..Len(typenames) |->
                         referencedBy(allTypeData, typenames[i], opts)]))

-----------------------------------------------------------------------------
(* The schemas the fetch collaborator can serve (inputs of the model) *)

O == <<"OBJECT">>
NonNullO == <<"NON_NULL", "OBJECT">>
ListO == <<"LIST", "OBJECT">>
NonNullListNonNullO == <<"NON_NULL", "LIST", "NON_NULL", "OBJECT">>
ListListO == <<"LIST", "LIST", "OBJECT">>
NonNullScalar == <<"NON_NULL", "SCALAR">>

\* the cache of the end-to-end examples
DeviceSchema ==
    [n \in {"DeviceType", "ManufacturerType", "InterfaceType"} |->
        IF n = "DeviceType"
        THEN TypeInfo(n, "OBJECT",
                 <<Field("manufacturer", O, "ManufacturerType"),
                   Field("interfaces", ListO, "InterfaceType")>>)
        ELSE TypeInfo(n, "OBJECT", <<>>)]

\* a cyclic schema: self reference, back reference, a type reached at two depths,
\* a target the server cannot resolve, scalars, meta fields and non-relationship kinds
SiteSchema ==
    [n \in {"SiteType", "RackType", "RoleType"} |->
        CASE n = "SiteType" ->
               TypeInfo(n, "OBJECT",
                 <<Field("__typename", O, "RackType"),
                   Field("name", NonNullScalar, "String"),
                   Field("parent", O, "SiteType"),
                   Field("racks", NonNullListNonNullO, "RackType"),
                   Field("role", <<"INTERFACE">>, "RoleType"),
                   Field("tenant", O, "TenantType"),
                   Field("created", O, "DateTime"),
                   Field("matrix", ListListO, "RackType"),
                   Field("status", <<"ENUM">>, "StatusEnum")>>)
          [] n = "RackType" ->
               TypeInfo(n, "OBJECT",
                 <<Field("site", NonNullO, "SiteType"),
                   Field("role", <<"NON_NULL", "INTERFACE">>, "RoleType"),
                   Field("height", <<"SCALAR">>, "Int")>>)
          [] OTHER -> TypeInfoNoFields(n, "INTERFACE")]

BulkName(i) == "T" \o ToString(i)

BulkNames == [i \in 1..BulkTypes |-> BulkName(i)]

\* a wide schema: one hub that references more leaf types than the per-depth cap
HubSchema ==
    [n \in {"HubType"} \cup Range(BulkNames) |->
        IF n = "HubType"
        THEN TypeInfo(n, "OBJECT",
                 [i \in 1..BulkTypes |-> Field("f" \o ToString(i), O, BulkName(i))])
        ELSE TypeInfo(n, "OBJECT", <<Field("hub", O, "HubType")>>)]

\* the schema behind the App: the end-to-end cache and an object type whose name
\* does not end in 'Type'
InventorySchema ==
    [n \in {"DeviceType", "ManufacturerType", "InterfaceType", "Location"} |->
        IF n = "DeviceType"
        THEN TypeInfo(n, "OBJECT",
                 <<Field("manufacturer", O, "ManufacturerType"),
                   Field("interfaces", ListO, "InterfaceType"),
                   Field("location", O, "Location")>>)
        ELSE TypeInfo(n, "OBJECT", <<>>)]

Schemas == <<DeviceSchema, SiteSchema, HubSchema, InventorySchema>>

\* the schemas given to single calls of buildGraphFromIntrospection
BuildWorlds == {1, 2, 3}

Restrict(f, S) == [k \in S \cap DOMAIN f |-> f[k]]

RECURSIVE SeqsUpTo(_, _)
SeqsUpTo(S, n) ==
    IF n = 0 THEN {<<>>}
    ELSE LET shorter == SeqsUpTo(S, n - 1)
         IN shorter \cup {Append(q, x) : q \in shorter, x \in S}

RootChoices(w) ==
    CASE w = 1 -> SeqsUpTo({"DeviceType", "InterfaceType"}, MaxRoots)
      [] w = 2 -> SeqsUpTo({"SiteType", "RackType", "TenantType"}, MaxRoots)
      [] OTHER -> {<<"HubType">>, BulkNames, BulkNames \o <<"T1", "HubType">>}

TypeDataChoices(w) ==
    CASE w = 1 -> {Restrict(Schemas[w], S) :
                      S \in {{}, {"DeviceType"}, {"DeviceType", "InterfaceType"},
                             DOMAIN Schemas[w]}}
      [] w = 2 -> {Restrict(Schemas[w], S) :
                      S \in {{}, {"SiteType"}, {"RackType", "RoleType"}, DOMAIN Schemas[w]}}
      [] OTHER -> {Restrict(Schemas[w], S) :
                      S \in {{}, {"HubType"}, {"HubType", "T1", "T2"}, {"T101"}}}

FilterChoices(w) ==
    CASE w = 1 -> {NoPredicate, Predicate({}), Predicate({"ManufacturerType"})}
      [] w = 2 -> {NoPredicate, Predicate({"RackType", "RoleType"}),
                   Predicate({"SiteType", "RoleType", "TenantType"})}
      [] OTHER -> {NoPredicate, Predicate(Range(BulkNames) \ {"T7"})}

PrimaryChoices(w) ==
    CASE w = 1 -> {NoPredicate, Predicate({}), Predicate({"DeviceType"}),
                   Predicate(DOMAIN Schemas[w])}
      [] w = 2 -> {NoPredicate, Predicate({"SiteType"}), Predicate(DOMAIN Schemas[w])}
      [] OTHER -> {NoPredicate, Predicate({"HubType"})}

\* names whose introspection may fail in a fetch although the schema has them
Flaky(w) ==
    CASE w = 1 -> {"ManufacturerType"}
      [] w = 2 -> {"RackType", "RoleType"}
      [] w = 3 -> {"T3"}
      [] OTHER -> {"ManufacturerType"}

\* fetchTypes(names): the requested names the server resolves, minus the failed ones
FetchResponses(w, names) ==
    {Restrict(Schemas[w], Range(names) \ failed) : failed \in SUBSET Flaky(w)}

-----------------------------------------------------------------------------
(* buildGraphFromIntrospection: the locals of one call and its steps.         *)
(* requestLog, responseLog and depthLog are history fields: they record the   *)
(* fetcher calls, their results, and for each finished depth the list that    *)
(* was processed, the names with type data at that moment and the frontier    *)
(* computed for the next depth.                                               *)

\* mutant: const allTypeData = typeData, the working set is the caller's Map itself
NewBuild_SharesCallerMap(roots, callerTypeData) ==
    [pc |-> "loop",
     allTypeData |-> callerTypeData,
     sharesCallerMap |-> TRUE,
     nodes |-> <<>>,
     visited |-> {},
     stats |-> [filteredNodes |-> 0, nodesPerDepth |-> EmptyMap, typesFetched |-> 0],
     currentTypes |-> roots,
     depth |-> 0,
     typesToProcess |-> <<>>,
     typesToFetch |-> <<>>,
     edges |-> <<>>,
     result |-> <<>>,
     requestLog |-> <<>>,
     responseLog |-> <<>>,
     depthLog |-> <<>>]

\* allTypeData = new Map(typeData) is a Map of its own: sharesCallerMap is FALSE
NewBuild(roots, callerTypeData) ==
    [pc |-> "loop",
     allTypeData |-> callerTypeData,
     sharesCallerMap |-> FALSE,
     nodes |-> <<>>,
     visited |-> {},
     stats |-> [filteredNodes |-> 0, nodesPerDepth |-> EmptyMap, typesFetched |-> 0],
     currentTypes |-> roots,
     depth |-> 0,
     typesToProcess |-> <<>>,
     typesToFetch |-> <<>>,
     edges |-> <<>>,
     result |-> <<>>,
     requestLog |-> <<>>,
     responseLog |-> <<>>,
     depthLog |-> <<>>]

typesToProcessOf(b) ==
    LET unvisited(t) == visitKey(t, b.depth) \notin b.visited
    IN SelectSeq(b.currentTypes, unvisited)

missingTypesOf(b) ==
    LET missing(t) == t \notin DOMAIN b.allTypeData
    IN SelectSeq(typesToProcessOf(b), missing)

\* mutant: no cap on the number of types fetched per depth
limitTypesToFetch_NoLimit(missingTypes) == missingTypes

limitTypesToFetch(missingTypes) ==
    IF Len(missingTypes) > MAX_TYPES_PER_DEPTH
    THEN SubSeq(missingTypes, 1, MAX_TYPES_PER_DEPTH)
    ELSE missingTypes

\* mutant: the loop condition is depth <= options.maxDepth
LoopContinues_OneMoreDepth(b, opts) == b.depth <= opts.maxDepth /\ typesToProcessOf(b) # <<>>

\* the loop condition and the break of the loop head
LoopContinues(b, opts) == b.depth < opts.maxDepth /\ typesToProcessOf(b) # <<>>

\* mutant: fetchTypes is awaited at every depth when a fetcher was passed
NeedsFetch_Always(b, fetcher) == fetcher

\* whether the loop head awaits fetchTypes
NeedsFetch(b, fetcher) == missingTypesOf(b) # <<>> /\ fetcher

\* the rest of an iteration: create the nodes of the depth, compute the next frontier
FinishDepth(b, opts, toProcess) ==
    LET acc == createNodesForTypes(toProcess, b.depth, b.allTypeData, opts,
                   [visited |-> b.visited, nodes |-> b.nodes,
                    stats |-> [filteredNodes |-> b.stats.filteredNodes,
                               nodesPerDepth |-> b.stats.nodesPerDepth]])
    IN [b EXCEPT
          !.pc = "loop",
          !.visited = acc.visited,
          !.nodes = acc.nodes,
          !.stats = [filteredNodes |-> acc.stats.filteredNodes,
                     nodesPerDepth |-> acc.stats.nodesPerDepth,
                     typesFetched |-> b.stats.typesFetched],
          !.currentTypes = getReferencedTypes(b.allTypeData, toProcess, opts),
          !.typesToProcess = <<>>,
          !.typesToFetch = <<>>,
          !.depth = b.depth + 1,
          !.depthLog = Append(@, [depth |-> b.depth,
                                  processed |-> toProcess,
                                  known |-> DOMAIN b.allTypeData,
                                  next |-> getReferencedTypes(b.allTypeData, toProcess, opts)])]

\* mutant: the whole list of the depth is requested when something is missing
BeginDepth_RequestsAll(b, opts, fetcher) ==
    LET toProcess == typesToProcessOf(b)
        missingTypes == missingTypesOf(b)
    IN IF NeedsFetch(b, fetcher)
       THEN [b EXCEPT
               !.pc = "await",
               !.typesToProcess = toProcess,
               !.typesToFetch = limitTypesToFetch(toProcess),
               !.requestLog = Append(@, [depth |-> b.depth,
                                         missing |-> missingTypes,
                                         requested |-> limitTypesToFetch(toProcess)])]
       ELSE FinishDepth(b, opts, toProcess)

\* one loop head: up to the await of fetchTypes, or the whole iteration when nothing is fetched
BeginDepth(b, opts, fetcher) ==
    LET toProcess == typesToProcessOf(b)
        missingTypes == missingTypesOf(b)
    IN IF NeedsFetch(b, fetcher)
       THEN [b EXCEPT
               !.pc = "await",
               !.typesToProcess = toProcess,
               !.typesToFetch = limitTypesToFetch(missingTypes),
               !.requestLog = Append(@, [depth |-> b.depth,
                                         missing |-> missingTypes,
                                         requested |-> limitTypesToFetch(missingTypes)])]
       ELSE FinishDepth(b, opts, toProcess)

\* mutant: the fetched types are counted but not added to the working set
ResumeDepth_NoMerge(b, opts, fetchedTypes) ==
    FinishDepth([b EXCEPT
                   !.stats.typesFetched = @ + Cardinality(DOMAIN fetchedTypes),
                   !.responseLog = Append(@, [depth |-> b.depth,
                                              returned |-> DOMAIN fetchedTypes])],
                opts, b.typesToProcess)

\* mutant: typesFetched counts the requested names
ResumeDepth_CountsRequested(b, opts, fetchedTypes) ==
    LET merged == [b EXCEPT
                     !.allTypeData = MapMerge(@, fetchedTypes),
                     !.stats.typesFetched = @ + Len(b.typesToFetch),
                     !.responseLog = Append(@, [depth |-> b.depth,
                                                returned |-> DOMAIN fetchedTypes])]
    IN FinishDepth(merged, opts, b.typesToProcess)

\* the continuation after await fetchTypes(typesToFetch)
ResumeDepth(b, opts, fetchedTypes) ==
    LET merged == [b EXCEPT
                     !.allTypeData = MapMerge(@, fetchedTypes),
                     !.stats.typesFetched = @ + Cardinality(DOMAIN fetchedTypes),
                     !.responseLog = Append(@, [depth |-> b.depth,
                                                returned |-> DOMAIN fetchedTypes])]
    IN FinishDepth(merged, opts, b.typesToProcess)

\* the caller's Map after allTypeData.set(name, type) was applied to the working set
callerTypeDataAfter(b, callerTypeData) ==
    IF b.sharesCallerMap THEN b.allTypeData ELSE callerTypeData

\* after the loop: Pass 2 and the result object (node positions are not modelled)
FinishBuild(b, opts) ==
    LET pass2 == createEdgesBetweenNodes(b.nodes, b.allTypeData, opts)
    IN [b EXCEPT
          !.pc = "done",
          !.edges = pass2.edges,
          !.result = [nodes |-> b.nodes,
                      edges |-> pass2.edges,
                      stats |-> [totalNodes |-> Len(b.nodes),
                                 totalEdges |-> Len(pass2.edges),
                                 nodesPerDepth |-> b.stats.nodesPerDepth,
                                 filteredNodes |-> b.stats.filteredNodes,
                                 typesFetched |-> b.stats.typesFetched,
                                 edgesSkippedNonPrimary |-> pass2.edgesSkippedNonPrimary]]]

\* a whole call made without the fetchTypes argument
RECURSIVE runWithoutFetcher(_, _)
runWithoutFetcher(b, opts) ==
    IF LoopContinues(b, opts) THEN runWithoutFetcher(BeginDepth(b, opts, FALSE), opts)
    ELSE FinishBuild(b, opts)

\* a whole call whose fetcher answers its k-th call with the names in answers[k]
RECURSIVE runWithAnswers(_, _, _, _)
runWithAnswers(b, opts, fetcher, answers) ==
    IF b.pc = "await"
    THEN LET returned == IF answers = <<>> THEN {} ELSE Head(answers)
             rest == IF answers = <<>> THEN <<>> ELSE Tail(answers)
             fetchedTypes == Restrict(Schemas[world], Range(b.typesToFetch) \cap returned)
         IN runWithAnswers(ResumeDepth(b, opts, fetchedTypes), opts, fetcher, rest)
    ELSE IF LoopContinues(b, opts)
    THEN runWithAnswers(BeginDepth(b, opts, fetcher), opts, fetcher, answers)
    ELSE FinishBuild(b, opts)

-----------------------------------------------------------------------------
(* depthFilter.ts *)

\* mutant: nodes at depth maxDepth are kept
filterByDepth_Inclusive(nodes, edges, maxDepth) ==
    LET keep(node) == node.depth <= maxDepth
        filteredNodes == SelectSeq(nodes, keep)
        nodeIds == {filteredNodes[i].id : i \in DOMAIN filteredNodes}
        inside(edge) == edge.source \in nodeIds /\ edge.target \in nodeIds
    IN [filteredNodes |-> filteredNodes, filteredEdges |-> SelectSeq(edges, inside)]

filterByDepth(nodes, edges, maxDepth) ==
    LET keep(node) == node.depth < maxDepth
        filteredNodes == SelectSeq(nodes, keep)
        nodeIds == {filteredNodes[i].id : i \in DOMAIN filteredNodes}
        inside(edge) == edge.source \in nodeIds /\ edge.target \in nodeIds
    IN [filteredNodes |-> filteredNodes, filteredEdges |-> SelectSeq(edges, inside)]

-----------------------------------------------------------------------------
(* Specification of one call of buildGraphFromIntrospection *)

-----------------------------------------------------------------------------
(* App.tsx: the React state, the root-load effect and the graph build effect.     *)
(* A commit runs the cleanup of every effect whose dependencies changed and then   *)
(* the effect bodies; the state updates an effect body makes are committed in the  *)
(* same action. An entry of inflight is one started effect run with its closure    *)
(* variable cancelled. The fields id, stale, by, builtWith, publishedUnder,        *)
(* wasStale and droppedStale are history fields.                                   *)

AppWorld == 4

\* useTypeDiscovery: the object type names of the schema
DiscoveredTypes == DOMAIN Schemas[AppWorld]

\* useGraphTypeOptions(discoveredTypes).filterTypes, as a set
filterTypes(discoveredTypes) ==
    {name \in discoveredTypes : ~startsWith(name, "__") /\ endsWith(name, "Type")}

AvailableFilterTypes == filterTypes(DiscoveredTypes)

AppRoots == {"DeviceType", "InterfaceType"}

EmptyGraph ==
    [nodes |-> <<>>, edges |-> <<>>, by |-> 0,
     builtWith |-> <<>>, publishedUnder |-> <<>>, wasStale |-> FALSE]

\* useState initial values, the filter selection already initialised to all available
\* types; selectedRootType "" stands for null
AppInitial ==
    [selectedRootType |-> "",
     selectedFilterTypes |-> AvailableFilterTypes,
     depth |-> 2,
     typeData |-> EmptyMap,
     graphData |-> EmptyGraph,
     loadingRootType |-> FALSE,
     rootLoadError |-> FALSE,
     started |-> 0,
     droppedStale |-> FALSE]

filterPredicate(selectedFilterTypes, availableFilterTypes) ==
    IF Cardinality(selectedFilterTypes) = 0 THEN Predicate({})
    ELSE IF Cardinality(selectedFilterTypes) = Cardinality(availableFilterTypes)
    THEN NoPredicate
    ELSE Predicate(selectedFilterTypes)

transformOptions(depth, predicate) ==
    [maxDepth |-> depth, typeFilter |-> predicate, primaryModelChecker |-> NoPredicate]

\* the dependencies of the build effect, as values
BuildParams(a) ==
    [root |-> a.selectedRootType,
     typeData |-> a.typeData,
     options |-> transformOptions(a.depth,
                     filterPredicate(a.selectedFilterTypes, AvailableFilterTypes))]

\* mutant: the cleanup of the build effect does not set cancelled
cleanupEffect_Missing(fl, kind) == fl

\* return () => { cancelled = true } of the previous run of the effect
cleanupEffect(fl, kind) ==
    [i \in DOMAIN fl |->
        IF fl[i].kind = kind THEN [fl[i] EXCEPT !.cancelled = TRUE] ELSE fl[i]]

\* history: the builds in flight when a dependency of the build effect changes its value
markStale(fl) ==
    [i \in DOMAIN fl |-> IF fl[i].kind = "build" THEN [fl[i] EXCEPT !.stale = TRUE] ELSE fl[i]]

NewEffect(kind, id, params) ==
    [kind |-> kind, id |-> id, cancelled |-> FALSE, stale |-> FALSE, params |-> params,
     b |-> NewBuild(IF kind = "build" THEN <<params.root>> ELSE <<>>,
                    IF kind = "build" THEN params.typeData ELSE EmptyMap)]

\* the body of the build effect for the committed state a (after its cleanup)
buildEffect(a, fl) ==
    IF a.selectedRootType = ""
    THEN [app |-> [a EXCEPT !.graphData = EmptyGraph], inflight |-> fl]
    ELSE IF a.selectedRootType \notin DOMAIN a.typeData
    THEN [app |-> a, inflight |-> fl]
    ELSE [app |-> [a EXCEPT !.started = @ + 1],
          inflight |-> Append(fl, NewEffect("build", a.started + 1, BuildParams(a)))]

\* the body of the root-load effect for the committed state a (after its cleanup)
loadEffect(a, fl) ==
    IF a.selectedRootType = ""
    THEN [app |-> [a EXCEPT !.typeData = EmptyMap, !.graphData = EmptyGraph,
                            !.rootLoadError = FALSE, !.loadingRootType = FALSE],
          inflight |-> fl]
    ELSE [app |-> [a EXCEPT !.typeData = EmptyMap, !.graphData = EmptyGraph,
                            !.rootLoadError = FALSE, !.loadingRootType = TRUE,
                            !.started = @ + 1],
          inflight |-> Append(fl, NewEffect("load", a.started + 1, BuildParams(a)))]

\* a commit in which dependencies of the build effect changed: cleanup, then the body
commitBuildDeps(a, fl) == buildEffect(a, cleanupEffect(markStale(fl), "build"))

RemoveAt(fl, i) == SubSeq(fl, 1, i - 1) \o SubSeq(fl, i + 1, Len(fl))

\* if (!cancelled) setGraphData({ nodes, edges })
publish(a, e) ==
    IF ~e.cancelled
    THEN [a EXCEPT !.graphData =
            [nodes |-> e.b.result.nodes, edges |-> e.b.result.edges, by |-> e.id,
             builtWith |-> e.params, publishedUnder |-> BuildParams(a),
             wasStale |-> e.stale]]
    ELSE [a EXCEPT !.droppedStale = @ \/ e.stale]

-----------------------------------------------------------------------------
(* fieldNameInference.ts and fkLookup.ts *)

LowerCase == "abcdefghijklmnopqrstuvwxyz"
UpperCase == "ABCDEFGHIJKLMNOPQRSTUVWXYZ"

charAt(str, i) == SubSeq(str, i, i)

isLowerCase(c) == \E i \in 1..Len(LowerCase) : charAt(LowerCase, i) = c

toUpperCase(c) ==
    IF isLowerCase(c)
    THEN charAt(UpperCase, CHOOSE i \in 1..Len(LowerCase) : charAt(LowerCase, i) = c)
    ELSE c

includes(str, sub) ==
    \E i \in 1..(Len(str) - Len(sub) + 1) : SubSeq(str, i, i + Len(sub) - 1) = sub

\* str.replace(/_([a-z])/g, (_, letter) => letter.toUpperCase()), scanning from index i
RECURSIVE snakeToCamelFrom(_, _)
snakeToCamelFrom(str, i) ==
    IF i > Len(str) THEN ""
    ELSE IF charAt(str, i) = "_" /\ i < Len(str) /\ isLowerCase(charAt(str, i + 1))
    THEN toUpperCase(charAt(str, i + 1)) \o snakeToCamelFrom(str, i + 2)
    ELSE charAt(str, i) \o snakeToCamelFrom(str, i + 1)

snakeToCamel(str) == snakeToCamelFrom(str, 1)

specialCases ==
    [c \in {"_cable_peer_type_id", "local_config_context_data_owner_content_type_id",
            "_termination_a_device_id", "_termination_b_device_id"} |->
        CASE c = "_cable_peer_type_id" -> "cablePeerType"
          [] c = "local_config_context_data_owner_content_type_id" ->
                "localConfigContextDataOwnerContentType"
          [] c = "_termination_a_device_id" -> "terminationADevice"
          [] c = "_termination_b_device_id" -> "terminationBDevice"]

\* `columnName in specialCases` also finds what the object literal inherits
ObjectPrototypeKeys ==
    {"constructor", "toString", "valueOf", "hasOwnProperty", "isPrototypeOf",
     "propertyIsEnumerable", "toLocaleString", "__proto__"}

\* an inherited member is not a string; it is written here by its owner and name
InheritedMember(name) == "Object.prototype." \o name

inferFieldName(columnName) ==
    IF columnName \in DOMAIN specialCases THEN specialCases[columnName]
    ELSE IF columnName \in ObjectPrototypeKeys THEN InheritedMember(columnName)
    ELSE IF endsWith(columnName, "_id")
    THEN snakeToCamel(SubSeq(columnName, 1, Len(columnName) - 3))
    ELSE snakeToCamel(columnName)

junctionSuffixes ==
    {"_permissions", "_members", "_users", "_groups", "_tags", "_vlans", "_types",
     "_locations", "_assignments", "_associations", "_targets", "_choices", "_queries"}

\* tableName.split('_')
partsCount(str) == Cardinality({i \in 1..Len(str) : charAt(str, i) = "_"}) + 1

lastPart(str) ==
    LET us == {i \in 1..Len(str) : charAt(str, i) = "_"}
        from == IF us = {} THEN 1 ELSE (CHOOSE i \in us : \A j \in us : j <= i) + 1
    IN SubSeq(str, from, Len(str))

\* mutant: Pattern 3 already applies to names of two segments
isJunctionTable_TwoSegments(tableName) ==
    \/ includes(tableName, "_to_")
    \/ \E suffix \in junctionSuffixes : endsWith(tableName, suffix)
    \/ /\ partsCount(tableName) >= 2
       /\ endsWith(lastPart(tableName), "s") \/ endsWith(lastPart(tableName), "es")

isJunctionTable(tableName) ==
    \/ includes(tableName, "_to_")
    \/ \E suffix \in junctionSuffixes : endsWith(tableName, suffix)
    \/ /\ partsCount(tableName) >= 3
       /\ endsWith(lastPart(tableName), "s") \/ endsWith(lastPart(tableName), "es")

isSelfReference(row) == row.source_table = row.target_table

\* no call of inferFieldName or isJunctionTable under way
InferIdle ==
    [columnName |-> "", tableName |-> "", inferred |-> FALSE, fieldName |-> "",
     checked |-> FALSE, junction |-> FALSE]

PgForeignKey(st, sc, tt, tc) ==
    [source_table |-> st, source_column |-> sc, target_table |-> tt, target_column |-> tc]

\* StubTableToTypeMapper.tableToType; "" stands for null (both are falsy at the check)
tableToType(nameMapper, tableName) ==
    IF tableName \in DOMAIN nameMapper THEN nameMapper[tableName] ELSE ""

\* mutant: a self-reference is stamped as the reverse side of the relation
forwardMeta_SelfRefReverse(row) ==
    [direction |-> IF isSelfReference(row) THEN "reverse" ELSE "forward",
     cardinality |-> IF isSelfReference(row) THEN "one-to-many"
                     ELSE IF isJunctionTable(row.source_table) THEN "many-to-many"
                     ELSE "many-to-one",
     sourceTable |-> row.source_table,
     targetTable |-> row.target_table,
     sourceColumn |-> row.source_column,
     targetColumn |-> row.target_column,
     fieldName |-> inferFieldName(row.source_column),
     isJunctionTable |-> isJunctionTable(row.source_table),
     original |-> row]

forwardMeta(row) ==
    [direction |-> "forward",
     cardinality |-> IF isJunctionTable(row.source_table) THEN "many-to-many" ELSE "many-to-one",
     sourceTable |-> row.source_table,
     targetTable |-> row.target_table,
     sourceColumn |-> row.source_column,
     targetColumn |-> row.target_column,
     fieldName |-> inferFieldName(row.source_column),
     isJunctionTable |-> isJunctionTable(row.source_table),
     original |-> row]

forwardKey(nameMapper, row) ==
    tableToType(nameMapper, row.source_table) \o "." \o inferFieldName(row.source_column)

NewLookup(foreignKeys, nameMapper) ==
    [pc |-> "rows",
     foreignKeys |-> foreignKeys,
     nameMapper |-> nameMapper,
     next |-> 1,
     lookup |-> EmptyMap,
     stats |-> [totalFKs |-> Len(foreignKeys), forwardFKs |-> 0, reverseFKs |-> 0,
                junctionTables |-> 0, selfReferences |-> 0, parseErrors |-> 0,
                unmappedTables |-> 0],
     unmappedTables |-> {},
     processedKeys |-> {},
     before |-> <<>>]

\* mutant: Step 5 without the duplicate check
addForward_Overwrite(f, key, meta) ==
    [f EXCEPT !.lookup = MapMerge(@, [k \in {key} |-> meta]),
              !.processedKeys = @ \cup {key},
              !.stats.forwardFKs = @ + 1]

\* mutant: a duplicate key is dropped without counting an error
addForward_DuplicateUncounted(f, key, meta) ==
    IF key \in f.processedKeys
    THEN f
    ELSE [f EXCEPT !.lookup = MapMerge(@, [k \in {key} |-> meta]),
                   !.processedKeys = @ \cup {key},
                   !.stats.forwardFKs = @ + 1]

\* Step 5: the duplicate check, then lookup.set
addForward(f, key, meta) ==
    IF key \in f.processedKeys
    THEN [f EXCEPT !.stats.parseErrors = @ + 1]
    ELSE [f EXCEPT !.lookup = MapMerge(@, [k \in {key} |-> meta]),
                   !.processedKeys = @ \cup {key},
                   !.stats.forwardFKs = @ + 1]

\* mutant: only the source table has to be mapped
processRow_TargetUnchecked(f) ==
    LET row == f.foreignKeys[f.next]
        sourceType == tableToType(f.nameMapper, row.source_table)
        targetType == tableToType(f.nameMapper, row.target_table)
        f1 == [f EXCEPT !.next = @ + 1,
                        !.before = Append(@, [lookup |-> f.lookup,
                                              parseErrors |-> f.stats.parseErrors]),
                        !.unmappedTables =
                            @ \cup (IF sourceType = "" THEN {row.source_table} ELSE {})
                              \cup (IF targetType = "" THEN {row.target_table} ELSE {})]
    IN IF sourceType = ""
       THEN [f1 EXCEPT !.stats.parseErrors = @ + 1]
       ELSE addForward(f1, sourceType \o "." \o inferFieldName(row.source_column),
                       forwardMeta(row))

\* one iteration of the loop over foreignKeys; before records, for each row, the
\* lookup and the error count the iteration started from
processRow(f) ==
    LET row == f.foreignKeys[f.next]
        sourceType == tableToType(f.nameMapper, row.source_table)
        targetType == tableToType(f.nameMapper, row.target_table)
        f1 == [f EXCEPT !.next = @ + 1,
                        !.before = Append(@, [lookup |-> f.lookup,
                                              parseErrors |-> f.stats.parseErrors]),
                        !.unmappedTables =
                            @ \cup (IF sourceType = "" THEN {row.source_table} ELSE {})
                              \cup (IF targetType = "" THEN {row.target_table} ELSE {})]
    IN IF sourceType = "" \/ targetType = ""
       THEN [f1 EXCEPT !.stats.parseErrors = @ + 1]
       ELSE addForward(
              [f1 EXCEPT !.stats.junctionTables =
                             IF isJunctionTable(row.source_table) THEN @ + 1 ELSE @,
                         !.stats.selfReferences = IF isSelfReference(row) THEN @ + 1 ELSE @],
              sourceType \o "." \o inferFieldName(row.source_column),
              forwardMeta(row))

\* Step 6 and the return
finishLookup(f) ==
    [f EXCEPT !.pc = "done", !.stats.unmappedTables = Cardinality(f.unmappedTables)]

FKRows ==
    {PgForeignKey("dcim_device", "manufacturer_id", "dcim_manufacturer", "id"),
     PgForeignKey("dcim_device", "manufacturer", "dcim_manufacturer", "uuid"),
     PgForeignKey("dcim_device", "device_type_id", "dcim_devicetype", "id"),
     PgForeignKey("dcim_device_legacy", "device_type", "dcim_manufacturer", "id"),
     PgForeignKey("dcim_interface_tagged_vlans", "interface_id", "dcim_interface", "id"),
     PgForeignKey("dcim_location", "parent_id", "dcim_location", "id"),
     PgForeignKey("dcim_cable", "_termination_a_device_id", "dcim_device", "id"),
     PgForeignKey("dcim_cable", "termination_a_device", "dcim_interface", "id"),
     PgForeignKey("extras_note", "owner_id", "dcim_device", "id")}

FullMapper ==
    [t \in {"dcim_device", "dcim_device_legacy", "dcim_manufacturer", "dcim_devicetype",
            "dcim_interface", "dcim_interface_tagged_vlans", "dcim_location",
            "dcim_cable"} |->
        CASE t = "dcim_device" -> "DeviceType"
          [] t = "dcim_device_legacy" -> "DeviceType"
          [] t = "dcim_manufacturer" -> "ManufacturerType"
          [] t = "dcim_devicetype" -> "DeviceTypeType"
          [] t = "dcim_interface" -> "InterfaceType"
          [] t = "dcim_interface_tagged_vlans" -> "InterfaceTaggedVlansType"
          [] t = "dcim_location" -> "LocationType"
          [] t = "dcim_cable" -> "CableType"]

NameMappers ==
    {FullMapper,
     Restrict(FullMapper, DOMAIN FullMapper \ {"dcim_manufacturer", "dcim_device_legacy"})}

FKIdle == NewLookup(<<>>, EmptyMap)

-----------------------------------------------------------------------------
(* nameMapper.ts: NameMapper, buildNameMapper, inferTableNameFromType *)

isUpperCase(c) == \E i \in 1..Len(UpperCase) : charAt(UpperCase, i) = c

toLowerCase(c) ==
    IF isUpperCase(c)
    THEN charAt(LowerCase, CHOOSE i \in 1..Len(UpperCase) : charAt(UpperCase, i) = c)
    ELSE c

SPECIAL_CASE_OVERRIDES ==
    [t \in {"ipam_ipaddress", "ipam_vrf", "ipam_vlan", "ipam_rir",
            "virtualization_virtualmachine", "virtualization_vminterface"} |->
        CASE t = "ipam_ipaddress" -> "IPAddressType"
          [] t = "ipam_vrf" -> "VRFType"
          [] t = "ipam_vlan" -> "VLANType"
          [] t = "ipam_rir" -> "RIRType"
          [] t = "virtualization_virtualmachine" -> "VirtualMachineType"
          [] t = "virtualization_vminterface" -> "VMInterfaceType"]

getReverseSpecialCases ==
    [T \in {SPECIAL_CASE_OVERRIDES[t] : t \in DOMAIN SPECIAL_CASE_OVERRIDES} |->
        CHOOSE t \in DOMAIN SPECIAL_CASE_OVERRIDES : SPECIAL_CASE_OVERRIDES[t] = T]

\* str.replace(/([A-Z])/g, ...): an underscore before every capital but the first character
RECURSIVE withUnderscoresFrom(_, _)
withUnderscoresFrom(str, i) ==
    IF i > Len(str) THEN ""
    ELSE (IF isUpperCase(charAt(str, i))
          THEN (IF i > 1 THEN "_" ELSE "") \o toLowerCase(charAt(str, i))
          ELSE charAt(str, i))
         \o withUnderscoresFrom(str, i + 1)

\* str.replace(/__+/g, '_')
RECURSIVE collapseUnderscoresFrom(_, _)
collapseUnderscoresFrom(str, i) ==
    IF i > Len(str) THEN ""
    ELSE IF charAt(str, i) = "_" /\ i > 1 /\ charAt(str, i - 1) = "_"
    THEN collapseUnderscoresFrom(str, i + 1)
    ELSE charAt(str, i) \o collapseUnderscoresFrom(str, i + 1)

pascalToSnake(str) == collapseUnderscoresFrom(withUnderscoresFrom(str, 1), 1)

\* the pattern lists of inferAppPrefix, in the order they are tried
appPatterns ==
    << [app |-> "dcim",
        patterns |-> {"Device", "Rack", "Interface", "Cable", "Power", "Console",
                      "Location", "Manufacturer", "Platform", "Module"}],
       [app |-> "ipam",
        patterns |-> {"IP", "VLAN", "VRF", "Prefix", "Namespace", "RIR", "Route"}],
       [app |-> "circuits", patterns |-> {"Circuit", "Provider"}],
       [app |-> "tenancy", patterns |-> {"Tenant"}],
       [app |-> "virtualization", patterns |-> {"VM", "Virtual", "Cluster"}],
       [app |-> "extras",
        patterns |-> {"Tag", "Status", "Role", "Webhook", "CustomField", "Job",
                      "ConfigContext", "Contact", "Team", "Secret", "Note"}],
       [app |-> "users", patterns |-> {"User", "Group", "Permission", "Token"}],
       [app |-> "cloud", patterns |-> {"Cloud"}] >>

\* "" stands for null
inferAppPrefix(basename) ==
    LET hits == {i \in DOMAIN appPatterns :
                    \E pat \in appPatterns[i].patterns : includes(basename, pat)}
    IN IF hits = {} THEN ""
       ELSE appPatterns[CHOOSE i \in hits : \A j \in hits : i <= j].app

\* "" stands for null
inferTableNameFromType(typename) ==
    LET base == IF endsWith(typename, "Type")
                THEN SubSeq(typename, 1, Len(typename) - 4) ELSE typename
    IN IF typename \in DOMAIN getReverseSpecialCases THEN getReverseSpecialCases[typename]
       ELSE IF typename \in ObjectPrototypeKeys THEN InheritedMember(typename)
       ELSE IF inferAppPrefix(base) # ""
       THEN inferAppPrefix(base) \o "_" \o pascalToSnake(base)
       ELSE ""

\* NameMapper.addMapping
addMapping(m, tableName, typeName) ==
    [m EXCEPT !.tableToTypeMap = MapMerge(@, [k \in {tableName} |-> typeName]),
              !.typeToTableMap = MapMerge(@, [k \in {typeName} |-> tableName])]

\* NameMapper.typeToTable; "" stands for null
typeToTable(m, typeName) ==
    LET normalized == IF endsWith(typeName, "Type") THEN typeName ELSE typeName \o "Type"
    IN IF normalized \in DOMAIN m.typeToTableMap THEN m.typeToTableMap[normalized] ELSE ""

NewNameMapper(typenames) ==
    [pc |-> "typenames",
     typenames |-> typenames,
     next |-> 1,
     tableToTypeMap |-> EmptyMap,
     typeToTableMap |-> EmptyMap,
     stats |-> [totalMappings |-> 0, successfulMappings |-> 0, failedMappings |-> 0,
                specialCaseOverrides |-> 0]]

\* one iteration of the loop of buildNameMapper
mapTypename(m) ==
    LET typename == m.typenames[m.next]
        tableName == inferTableNameFromType(typename)
        m1 == [m EXCEPT !.next = @ + 1, !.stats.totalMappings = @ + 1]
    IN IF tableName # ""
       THEN [addMapping(m1, tableName, typename) EXCEPT !.stats.successfulMappings = @ + 1]
       ELSE [m1 EXCEPT !.stats.failedMappings = @ + 1]

TypenamePool ==
    {"DeviceType", "Device", "DeviceTypeType", "Device_TypeType", "VLANType",
     "IPAddressType", "VirtualMachineType", "VirtualmachineType", "QueryType",
     "TenantType"}

MapperIdle == NewNameMapper(<<>>)

-----------------------------------------------------------------------------
(* edgeEnhancer.ts: enhanceEdgeWithFK *)

\* the whole of buildFKLookupMap: the loop over the rows, then the returned lookup
RECURSIVE runLookup(_)
runLookup(f) ==
    IF f.next > Len(f.foreignKeys) THEN finishLookup(f) ELSE runLookup(processRow(f))

buildFKLookupMap(foreignKeys, nameMapper) == runLookup(NewLookup(foreignKeys, nameMapper)).lookup

\* edge.data || {}
dataOrEmpty(edge) == IF edge.hasData THEN edge.data ELSE EmptyMap

\* mutant: the metadata is written into the data object of the edge that was passed in
enhanceEdgeWithFK_InPlace(edge, sourceType, fieldName, fkLookup) ==
    LET lookupKey == sourceType \o "." \o fieldName
        stamped ==
            IF fkLookup.present /\ lookupKey \in DOMAIN fkLookup.map
            THEN [edge EXCEPT !.hasData = TRUE,
                              !.data = MapMerge(dataOrEmpty(edge),
                                  [isFK |-> TRUE,
                                   fkMetadata |-> fkLookup.map[lookupKey],
                                   direction |-> fkLookup.map[lookupKey].direction,
                                   cardinality |-> fkLookup.map[lookupKey].cardinality,
                                   sourceTable |-> fkLookup.map[lookupKey].sourceTable,
                                   targetTable |-> fkLookup.map[lookupKey].targetTable,
                                   isJunctionTable |-> fkLookup.map[lookupKey].isJunctionTable])]
            ELSE [edge EXCEPT !.hasData = TRUE,
                              !.data = MapMerge(dataOrEmpty(edge), [isFK |-> FALSE])]
    IN [edge |-> stamped, result |-> stamped]

\* returns the new edge (result) next to the edge object that was passed in
enhanceEdgeWithFK(edge, sourceType, fieldName, fkLookup) ==
    LET lookupKey == sourceType \o "." \o fieldName
    IN IF ~fkLookup.present
       THEN [edge |-> edge,
             result |-> [edge EXCEPT !.hasData = TRUE,
                                     !.data = MapMerge(dataOrEmpty(edge), [isFK |-> FALSE])]]
       ELSE IF lookupKey \in DOMAIN fkLookup.map
       THEN [edge |-> edge,
             result |-> [edge EXCEPT !.hasData = TRUE,
                            !.data = MapMerge(dataOrEmpty(edge),
                                [isFK |-> TRUE,
                                 fkMetadata |-> fkLookup.map[lookupKey],
                                 direction |-> fkLookup.map[lookupKey].direction,
                                 cardinality |-> fkLookup.map[lookupKey].cardinality,
                                 sourceTable |-> fkLookup.map[lookupKey].sourceTable,
                                 targetTable |-> fkLookup.map[lookupKey].targetTable,
                                 isJunctionTable |-> fkLookup.map[lookupKey].isJunctionTable])]]
       ELSE [edge |-> edge,
             result |-> [edge EXCEPT !.hasData = TRUE,
                                     !.data = MapMerge(dataOrEmpty(edge), [isFK |-> FALSE])]]

\* a GraphEdge as createEdge returns it (no data property)
BaseEdge(parentId, childId, fieldName) ==
    [id |-> createEdge(parentId, childId, fieldName).id,
     source |-> parentId, target |-> childId, hasData |-> FALSE, data |-> EmptyMap]

EnhancerRows ==
    <<PgForeignKey("dcim_device", "manufacturer_id", "dcim_manufacturer", "id"),
      PgForeignKey("dcim_location", "parent_id", "dcim_location", "id"),
      PgForeignKey("dcim_interface_tagged_vlans", "interface_id", "dcim_interface", "id")>>

\* fkLookup: FKLookupMap | null
EnhancerLookups ==
    {[present |-> FALSE, map |-> EmptyMap],
     [present |-> TRUE, map |-> EmptyMap],
     [present |-> TRUE, map |-> buildFKLookupMap(SubSeq(EnhancerRows, 1, 1), FullMapper)],
     [present |-> TRUE, map |-> buildFKLookupMap(EnhancerRows, FullMapper)]}

\* edges as createEdge makes them, one with a data object, one enhanced before
EnhancerEdges ==
    LET base == BaseEdge("DeviceType:root:0", "ManufacturerType:manufacturer:1", "manufacturer")
        loc == BaseEdge("LocationType:root:0", "LocationType:parent:1", "parent")
    IN {base, loc,
        [loc EXCEPT !.hasData = TRUE, !.data = [label |-> "parent"]],
        enhanceEdgeWithFK(base, "DeviceType", "manufacturer",
            [present |-> TRUE, map |-> buildFKLookupMap(EnhancerRows, FullMapper)]).result}

EnhancerSourceTypes == {"DeviceType", "LocationType", "InterfaceTaggedVlansType", "TenantType"}

EnhancerFieldNames == {"manufacturer", "parent", "interface", "tenant"}

NewEnhance(edge, sourceType, fieldName, fkLookup) ==
    [pc |-> "call", edge |-> edge, sourceType |-> sourceType, fieldName |-> fieldName,
     fkLookup |-> fkLookup, passed |-> edge, result |-> edge]

EnhanceIdle ==
    NewEnhance(BaseEdge("", "", ""), "", "", [present |-> FALSE, map |-> EmptyMap])

-----------------------------------------------------------------------------
(* useTypeFetcher.ts: the global cache, fetchType, fetchMultipleTypes, clearCache. *)
(* A call is a record of calls: its arguments, its locals, the introspectType      *)
(* requests it still awaits and, once settled, what its promise resolved to. The   *)
(* fields cacheAtCall, requests, outcomes and cleared are history fields.          *)

\* globalCache after module load
EmptyCache == [types |-> EmptyMap, fetchedAt |-> {}, cleared |-> 0]

\* stands for type: null of a FetchTypeResult
NoType == TypeInfoNoFields("", "")

FetchTypeResult(hasType, type, fromCache) ==
    [hasType |-> hasType, type |-> type, fromCache |-> fromCache, hasError |-> ~hasType]

NoResult == FetchTypeResult(FALSE, NoType, FALSE)

NewCall(kind, typenames, c) ==
    [kind |-> kind, typenames |-> typenames, pc |-> "await",
     cachedTypes |-> <<>>, missingTypes |-> <<>>, pending |-> {},
     fetchResults |-> <<>>, result |-> NoResult, resultMap |-> EmptyMap,
     cacheAtCall |-> c.types, requests |-> 0, outcomes |-> <<>>]

\* globalCache.types.set(typename, type); globalCache.fetchedAt.set(typename, new Date())
cacheSet(c, typename, type) ==
    [c EXCEPT !.types = MapMerge(@, [k \in {typename} |-> type]),
              !.fetchedAt = @ \cup {typename}]

clearCache(c) == [c EXCEPT !.types = EmptyMap, !.fetchedAt = {}, !.cleared = @ + 1]

\* mutant: fetchType goes to the network without looking at the cache
fetchTypeCall_NoCacheCheck(c, typename) ==
    [NewCall("single", <<typename>>, c) EXCEPT
        !.missingTypes = <<typename>>, !.pending = {1},
        !.fetchResults = <<NoResult>>, !.outcomes = <<"pending">>, !.requests = 1]

\* fetchType up to its await: a cache hit returns at once, a miss requests the type
fetchTypeCall(c, typename) ==
    IF typename \in DOMAIN c.types
    THEN [NewCall("single", <<typename>>, c) EXCEPT
            !.pc = "done", !.result = FetchTypeResult(TRUE, c.types[typename], TRUE)]
    ELSE [NewCall("single", <<typename>>, c) EXCEPT
            !.missingTypes = <<typename>>, !.pending = {1},
            !.fetchResults = <<NoResult>>, !.outcomes = <<"pending">>, !.requests = 1]

\* the result map fetchMultipleTypes builds once Promise.all has resolved
RECURSIVE setFetched(_, _, _)
setFetched(resultMap, fetchResults, i) ==
    IF i > Len(fetchResults) THEN resultMap
    ELSE setFetched(
            IF fetchResults[i].hasType
            THEN MapMerge(resultMap,
                          [k \in {fetchResults[i].type.name} |-> fetchResults[i].type])
            ELSE resultMap,
            fetchResults, i + 1)

buildResultMap(c, call) ==
    setFetched(Restrict(c.types, Range(call.cachedTypes)), call.fetchResults, 1)

\* fetchMultipleTypes up to its await; with nothing missing Promise.all([]) is resolved
fetchMultipleTypesCall(c, typenames) ==
    LET cachedTypes == SelectSeq(typenames, LAMBDA n : n \in DOMAIN c.types)
        missingTypes == SelectSeq(typenames, LAMBDA n : n \notin DOMAIN c.types)
        call == [NewCall("multi", typenames, c) EXCEPT
                    !.cachedTypes = cachedTypes,
                    !.missingTypes = missingTypes,
                    !.pending = 1..Len(missingTypes),
                    !.fetchResults = [i \in 1..Len(missingTypes) |-> NoResult],
                    !.outcomes = [i \in 1..Len(missingTypes) |-> "pending"],
                    !.requests = Len(missingTypes)]
    IN IF missingTypes = <<>>
       THEN [call EXCEPT !.pc = "done", !.resultMap = buildResultMap(c, call)]
       ELSE call

\* introspectType for missingTypes[k] of a call settles (ok: it returned the type);
\* gives the cache and the call afterwards, the call settled when it was the last one
introspectSettles(c, w, call, k, ok) ==
    LET typename == call.missingTypes[k]
        c1 == IF ok THEN cacheSet(c, typename, Schemas[w][typename]) ELSE c
        r == IF ok THEN FetchTypeResult(TRUE, Schemas[w][typename], FALSE) ELSE NoResult
        call1 == [call EXCEPT !.pending = @ \ {k},
                              !.fetchResults[k] = r,
                              !.outcomes[k] = IF ok THEN "ok" ELSE "failed"]
    IN [cache |-> c1,
        call |-> IF call1.pending # {} THEN call1
                 ELSE IF call.kind = "single"
                 THEN [call1 EXCEPT !.pc = "done", !.result = r]
                 ELSE [call1 EXCEPT !.pc = "done", !.resultMap = buildResultMap(c1, call1)]]

\* what callers ask for: two types of the schema and one the server does not know
FetchNames == {"DeviceType", "ManufacturerType", "GhostType"}

\* the lists handed to fetchMultipleTypes: known types, an unknown one, a repeated one
FetchLists ==
    {<<"DeviceType", "ManufacturerType">>, <<"ManufacturerType", "GhostType", "ManufacturerType">>}

OptionChoices(w) ==
    [maxDepth : 1..MaxDepthBound,
     typeFilter : FilterChoices(w),
     primaryModelChecker : PrimaryChoices(w)]

Init ==
    /\ world \in BuildWorlds
    /\ rootTypes \in RootChoices(world)
    /\ typeData \in TypeDataChoices(world)
    /\ options \in OptionChoices(world)
    /\ hasFetcher \in BOOLEAN
    /\ build = NewBuild(rootTypes, typeData)
    /\ app = AppInitial
    /\ inflight = <<>>
    /\ fk = FKIdle
    /\ mapper = MapperIdle
    /\ enh = EnhanceIdle
    /\ cache = EmptyCache
    /\ calls = <<>>
    /\ infer = InferIdle

\* a loop iteration starts: it runs to the await, or to its end when nothing is fetched
LoopIteration ==
    /\ build.pc = "loop"
    /\ LoopContinues(build, options)
    /\ build' = BeginDepth(build, options, hasFetcher)
    /\ UNCHANGED <<world, rootTypes, typeData, options, hasFetcher, app, inflight, fk, mapper, enh, cache, calls, infer>>

\* the awaited fetch resolves and the iteration runs to its end
FetchResolved ==
    /\ build.pc = "await"
    /\ \E fetchedTypes \in FetchResponses(world, build.typesToFetch) :
          build' = ResumeDepth(build, options, fetchedTypes)
    /\ typeData' = callerTypeDataAfter(build', typeData)
    /\ UNCHANGED <<world, rootTypes, options, hasFetcher, app, inflight, fk, mapper, enh, cache, calls, infer>>

\* the loop ends (depth limit or empty frontier): Pass 2 and return
ReturnResult ==
    /\ build.pc = "loop"
    /\ ~LoopContinues(build, options)
    /\ build' = FinishBuild(build, options)
    /\ UNCHANGED <<world, rootTypes, typeData, options, hasFetcher, app, inflight, fk, mapper, enh, cache, calls, infer>>

Next == LoopIteration \/ FetchResolved \/ ReturnResult

Spec == Init /\ [][Next]_vars

-----------------------------------------------------------------------------
(* The App: user input, the root load and the graph builds in flight *)

AppDepths == {1, 2}

\* the selections offered: nothing, one type, everything
FilterSelections == {{}, {"ManufacturerType"}, AvailableFilterTypes}

AppInit ==
    /\ world = AppWorld
    /\ rootTypes = <<>>
    /\ typeData = EmptyMap
    /\ options = transformOptions(AppInitial.depth, NoPredicate)
    /\ hasFetcher = TRUE
    /\ build = NewBuild(<<>>, EmptyMap)
    /\ app = AppInitial
    /\ inflight = <<>>
    /\ fk = FKIdle
    /\ mapper = MapperIdle
    /\ enh = EnhanceIdle
    /\ cache = EmptyCache
    /\ calls = <<>>
    /\ infer = InferIdle

\* setSelectedRootType(r): both effects re-run, then the state the root-load effect
\* set (a new typeData Map among it) is committed and the build effect re-runs
SelectRootType ==
    /\ app.started < MaxEffects
    /\ \E r \in (AppRoots \cup {""}) \ {app.selectedRootType} :
         LET a1 == [app EXCEPT !.selectedRootType = r]
             fl1 == cleanupEffect(cleanupEffect(markStale(inflight), "load"), "build")
             s1 == buildEffect(a1, fl1)
             s2 == loadEffect(s1.app, s1.inflight)
             s3 == commitBuildDeps(s2.app, s2.inflight)
         IN /\ app' = s3.app
            /\ inflight' = s3.inflight
    /\ UNCHANGED <<world, rootTypes, typeData, options, hasFetcher, build, fk, mapper, enh, cache, calls, infer>>

\* await fetchType(selectedRootType) of a root-load effect run resolves
RootTypeLoaded ==
    /\ \E i \in DOMAIN inflight :
         /\ inflight[i].kind = "load"
         /\ \E found \in BOOLEAN :
              LET e == inflight[i]
                  rest == RemoveAt(inflight, i)
                  name == e.params.root
              IN IF e.cancelled
                 THEN app' = app /\ inflight' = rest
                 ELSE IF ~found
                 THEN /\ app' = [app EXCEPT !.rootLoadError = TRUE, !.loadingRootType = FALSE]
                      /\ inflight' = rest
                 ELSE LET a1 == [app EXCEPT !.typeData = Restrict(Schemas[world], {name}),
                                            !.loadingRootType = FALSE]
                          s1 == commitBuildDeps(a1, rest)
                      IN app' = s1.app /\ inflight' = s1.inflight
    /\ UNCHANGED <<world, rootTypes, typeData, options, hasFetcher, build, fk, mapper, enh, cache, calls, infer>>

\* setDepth(d): transformOptions changes and the build effect re-runs
SetDepth ==
    /\ app.started < MaxEffects
    /\ \E d \in AppDepths \ {app.depth} :
         LET s1 == commitBuildDeps([app EXCEPT !.depth = d], inflight)
         IN app' = s1.app /\ inflight' = s1.inflight
    /\ UNCHANGED <<world, rootTypes, typeData, options, hasFetcher, build, fk, mapper, enh, cache, calls, infer>>

\* setSelectedFilterTypes(sel): the build effect re-runs when transformOptions changed
SetFilterTypes ==
    /\ app.started < MaxEffects
    /\ \E sel \in FilterSelections \ {app.selectedFilterTypes} :
         LET a1 == [app EXCEPT !.selectedFilterTypes = sel]
             s1 == IF BuildParams(a1) = BuildParams(app)
                   THEN [app |-> a1, inflight |-> inflight]
                   ELSE commitBuildDeps(a1, inflight)
         IN app' = s1.app /\ inflight' = s1.inflight
    /\ UNCHANGED <<world, rootTypes, typeData, options, hasFetcher, build, fk, mapper, enh, cache, calls, infer>>

\* a build in flight starts a loop iteration
BuildLoopIteration ==
    /\ \E i \in DOMAIN inflight :
         /\ inflight[i].kind = "build"
         /\ inflight[i].b.pc = "loop"
         /\ LoopContinues(inflight[i].b, inflight[i].params.options)
         /\ inflight' = [inflight EXCEPT ![i].b =
                            BeginDepth(@, inflight[i].params.options, TRUE)]
    /\ UNCHANGED <<world, rootTypes, typeData, options, hasFetcher, build, app, fk, mapper, enh, cache, calls, infer>>

\* fetchMultipleTypes of a build in flight resolves
BuildFetchResolved ==
    /\ \E i \in DOMAIN inflight :
         /\ inflight[i].kind = "build"
         /\ inflight[i].b.pc = "await"
         /\ \E fetchedTypes \in FetchResponses(world, inflight[i].b.typesToFetch) :
              inflight' = [inflight EXCEPT ![i].b =
                              ResumeDepth(@, inflight[i].params.options, fetchedTypes)]
    /\ UNCHANGED <<world, rootTypes, typeData, options, hasFetcher, build, app, fk, mapper, enh, cache, calls, infer>>

\* buildGraphFromIntrospection of a build in flight returns
BuildReturns ==
    /\ \E i \in DOMAIN inflight :
         /\ inflight[i].kind = "build"
         /\ inflight[i].b.pc = "loop"
         /\ ~LoopContinues(inflight[i].b, inflight[i].params.options)
         /\ inflight' = [inflight EXCEPT ![i].b = FinishBuild(@, inflight[i].params.options)]
    /\ UNCHANGED <<world, rootTypes, typeData, options, hasFetcher, build, app, fk, mapper, enh, cache, calls, infer>>

\* the continuation of buildGraph after the await: if (!cancelled) setGraphData(...)
BuildArrives ==
    /\ \E i \in DOMAIN inflight :
         /\ inflight[i].kind = "build"
         /\ inflight[i].b.pc = "done"
         /\ app' = publish(app, inflight[i])
         /\ inflight' = RemoveAt(inflight, i)
    /\ UNCHANGED <<world, rootTypes, typeData, options, hasFetcher, build, fk, mapper, enh, cache, calls, infer>>

AppNext ==
    \/ SelectRootType \/ RootTypeLoaded \/ SetDepth \/ SetFilterTypes
    \/ BuildLoopIteration \/ BuildFetchResolved \/ BuildReturns \/ BuildArrives

AppSpec == AppInit /\ [][AppNext]_vars

-----------------------------------------------------------------------------
(* buildFKLookupMap over a list of rows *)

FKInit ==
    /\ world = AppWorld
    /\ rootTypes = <<>>
    /\ typeData = EmptyMap
    /\ options = transformOptions(AppInitial.depth, NoPredicate)
    /\ hasFetcher = FALSE
    /\ build = NewBuild(<<>>, EmptyMap)
    /\ app = AppInitial
    /\ inflight = <<>>
    /\ \E foreignKeys \in SeqsUpTo(FKRows, MaxRows) : \E nameMapper \in NameMappers :
          fk = NewLookup(foreignKeys, nameMapper)
    /\ mapper = MapperIdle
    /\ enh = EnhanceIdle
    /\ cache = EmptyCache
    /\ calls = <<>>
    /\ infer = InferIdle

ProcessRow ==
    /\ fk.pc = "rows"
    /\ fk.next <= Len(fk.foreignKeys)
    /\ fk' = processRow(fk)
    /\ UNCHANGED <<world, rootTypes, typeData, options, hasFetcher, build, app, inflight, mapper, enh, cache, calls, infer>>

ReturnLookup ==
    /\ fk.pc = "rows"
    /\ fk.next > Len(fk.foreignKeys)
    /\ fk' = finishLookup(fk)
    /\ UNCHANGED <<world, rootTypes, typeData, options, hasFetcher, build, app, inflight, mapper, enh, cache, calls, infer>>

FKNext == ProcessRow \/ ReturnLookup

FKSpec == FKInit /\ [][FKNext]_vars

-----------------------------------------------------------------------------
(* Single calls of inferFieldName and isJunctionTable *)

ColumnNames ==
    {"manufacturer_id", "device_type_id", "_cable_peer_type_id", "_termination_a_device_id",
     "local_config_context_data_owner_content_type_id", "device_name", "parent_id",
     "id", "_id", "status", "tenant_2_id", "constructor", "valueOf"}

TableNames ==
    {"interface_tagged_vlans", "device", "device_to_software_image",
     "auth_group_permissions", "dcim_device", "dcim_devices", "dcim_device_bays",
     "extras_status", "dcim_virtual_chassis", "dcim_rack_", "_tags", "to_do"}

InferInit ==
    /\ world = AppWorld
    /\ rootTypes = <<>>
    /\ typeData = EmptyMap
    /\ options = transformOptions(AppInitial.depth, NoPredicate)
    /\ hasFetcher = FALSE
    /\ build = NewBuild(<<>>, EmptyMap)
    /\ app = AppInitial
    /\ inflight = <<>>
    /\ fk = FKIdle
    /\ mapper = MapperIdle
    /\ enh = EnhanceIdle
    /\ cache = EmptyCache
    /\ calls = <<>>
    /\ \E c \in ColumnNames, t \in TableNames :
          infer = [InferIdle EXCEPT !.columnName = c, !.tableName = t]

InferFieldName ==
    /\ ~infer.inferred
    /\ infer' = [infer EXCEPT !.inferred = TRUE, !.fieldName = inferFieldName(infer.columnName)]
    /\ UNCHANGED <<world, rootTypes, typeData, options, hasFetcher, build, app, inflight, fk, mapper, enh, cache, calls>>

IsJunctionTable ==
    /\ ~infer.checked
    /\ infer' = [infer EXCEPT !.checked = TRUE, !.junction = isJunctionTable(infer.tableName)]
    /\ UNCHANGED <<world, rootTypes, typeData, options, hasFetcher, build, app, inflight, fk, mapper, enh, cache, calls>>

InferNext == InferFieldName \/ IsJunctionTable

InferSpec == InferInit /\ [][InferNext]_vars

-----------------------------------------------------------------------------
(* buildNameMapper over a list of type names *)

NameMapperInit ==
    /\ world = AppWorld
    /\ rootTypes = <<>>
    /\ typeData = EmptyMap
    /\ options = transformOptions(AppInitial.depth, NoPredicate)
    /\ hasFetcher = FALSE
    /\ build = NewBuild(<<>>, EmptyMap)
    /\ app = AppInitial
    /\ inflight = <<>>
    /\ fk = FKIdle
    /\ \E typenames \in SeqsUpTo(TypenamePool, MaxTypenames) :
          mapper = NewNameMapper(typenames)
    /\ enh = EnhanceIdle
    /\ cache = EmptyCache
    /\ calls = <<>>
    /\ infer = InferIdle

MapTypename ==
    /\ mapper.pc = "typenames"
    /\ mapper.next <= Len(mapper.typenames)
    /\ mapper' = mapTypename(mapper)
    /\ UNCHANGED <<world, rootTypes, typeData, options, hasFetcher, build, app, inflight, fk, enh, cache, calls, infer>>

ReturnMapper ==
    /\ mapper.pc = "typenames"
    /\ mapper.next > Len(mapper.typenames)
    /\ mapper' = [mapper EXCEPT !.pc = "done"]
    /\ UNCHANGED <<world, rootTypes, typeData, options, hasFetcher, build, app, inflight, fk, enh, cache, calls, infer>>

NameMapperNext == MapTypename \/ ReturnMapper

NameMapperSpec == NameMapperInit /\ [][NameMapperNext]_vars

-----------------------------------------------------------------------------
(* enhanceEdgeWithFK on an edge, a source type, a field name and a lookup *)

EnhanceInit ==
    /\ world = AppWorld
    /\ rootTypes = <<>>
    /\ typeData = EmptyMap
    /\ options = transformOptions(AppInitial.depth, NoPredicate)
    /\ hasFetcher = FALSE
    /\ build = NewBuild(<<>>, EmptyMap)
    /\ app = AppInitial
    /\ inflight = <<>>
    /\ fk = FKIdle
    /\ mapper = MapperIdle
    /\ \E edge \in EnhancerEdges, sourceType \in EnhancerSourceTypes,
          fieldName \in EnhancerFieldNames, fkLookup \in EnhancerLookups :
          enh = NewEnhance(edge, sourceType, fieldName, fkLookup)
    /\ cache = EmptyCache
    /\ calls = <<>>
    /\ infer = InferIdle

\* the call: passed keeps the edge as it was handed over, edge is that object afterwards
EnhanceEdge ==
    /\ enh.pc = "call"
    /\ LET r == enhanceEdgeWithFK(enh.edge, enh.sourceType, enh.fieldName, enh.fkLookup)
       IN enh' = [enh EXCEPT !.pc = "done", !.edge = r.edge, !.result = r.result]
    /\ UNCHANGED <<world, rootTypes, typeData, options, hasFetcher, build, app, inflight, fk, mapper, cache, calls, infer>>

EnhanceNext == EnhanceEdge

EnhanceSpec == EnhanceInit /\ [][EnhanceNext]_vars

-----------------------------------------------------------------------------
(* The type fetcher: calls, their introspection requests, clearCache *)

\* the cache when the model starts to watch: empty, or holding a type fetched before
InitialCaches ==
    {EmptyCache, cacheSet(EmptyCache, "DeviceType", Schemas[AppWorld]["DeviceType"])}

FetcherInit ==
    /\ world = AppWorld
    /\ rootTypes = <<>>
    /\ typeData = EmptyMap
    /\ options = transformOptions(AppInitial.depth, NoPredicate)
    /\ hasFetcher = FALSE
    /\ build = NewBuild(<<>>, EmptyMap)
    /\ app = AppInitial
    /\ inflight = <<>>
    /\ fk = FKIdle
    /\ mapper = MapperIdle
    /\ enh = EnhanceIdle
    /\ cache \in InitialCaches
    /\ calls = <<>>
    /\ infer = InferIdle

FetcherOps == Len(calls) + cache.cleared

CallFetchType ==
    /\ FetcherOps < MaxFetcherOps
    /\ \E typename \in FetchNames : calls' = Append(calls, fetchTypeCall(cache, typename))
    /\ UNCHANGED <<world, rootTypes, typeData, options, hasFetcher, build, app, inflight, fk, mapper, enh, cache, infer>>

CallFetchMultipleTypes ==
    /\ FetcherOps < MaxFetcherOps
    /\ \E typenames \in FetchLists :
          calls' = Append(calls, fetchMultipleTypesCall(cache, typenames))
    /\ UNCHANGED <<world, rootTypes, typeData, options, hasFetcher, build, app, inflight, fk, mapper, enh, cache, infer>>

\* an introspectType request settles: the type when the server knows it and the
\* request gets through, an error otherwise
IntrospectSettles ==
    /\ \E i \in DOMAIN calls : \E k \in calls[i].pending :
          \E ok \in (IF calls[i].missingTypes[k] \in DOMAIN Schemas[world]
                     THEN BOOLEAN ELSE {FALSE}) :
             LET r == introspectSettles(cache, world, calls[i], k, ok)
             IN /\ cache' = r.cache
                /\ calls' = [calls EXCEPT ![i] = r.call]
    /\ UNCHANGED <<world, rootTypes, typeData, options, hasFetcher, build, app, inflight, fk, mapper, enh, infer>>

ClearCache ==
    /\ FetcherOps < MaxFetcherOps
    /\ cache' = clearCache(cache)
    /\ UNCHANGED <<world, rootTypes, typeData, options, hasFetcher, build, app, inflight, fk, mapper, enh, calls, infer>>

FetcherNext == CallFetchType \/ CallFetchMultipleTypes \/ IntrospectSettles \/ ClearCache

FetcherSpec == FetcherInit /\ [][FetcherNext]_vars

-----------------------------------------------------------------------------
(* Properties of buildGraphFromIntrospection (checked under Spec) *)

Done == build.pc = "done"

NodesOf(b) == Range(b.nodes)

\* the unwrapped targets of the relationship fields of a type that typeFilter accepts
AcceptedTargets(allTypeData, typename, opts) ==
    {unwrapType(f.type).name :
        f \in {g \in Range(extractRelationshipFields(allTypeData[typename])) :
                  filterAccepts(opts, unwrapType(g.type).name)}}

\* C1: every edge of the result has a source id and a target id that are ids of nodes
\* of the result (no dangling edges).
C1_NoDanglingEdges ==
    Done =>
        \A e \in Range(build.result.edges) :
            /\ \E n \in Range(build.result.nodes) : n.id = e.source
            /\ \E n \in Range(build.result.nodes) : n.id = e.target

C1_Witness ==
    /\ Done
    /\ Len(build.result.edges) >= 2
    /\ \E e \in Range(build.result.edges) : e.source # e.target

\* C2: no edge has as its source a node whose isPrimaryModel flag is false; a node of a
\* non-primary type has no outgoing edge even when its type has relationship fields and
\* nodes for their targets exist at the next depth.
C2_NonPrimaryIsLeaf ==
    Done =>
        \A n \in Range(build.result.nodes) :
            LET primary == /\ options.primaryModelChecker.present
                           /\ n.typename \in options.primaryModelChecker.accept
            IN /\ n.isPrimaryModel = primary
               /\ ~primary => \A e \in Range(build.result.edges) : e.source # n.id

C2_Witness ==
    /\ Done
    /\ build.result.edges # <<>>
    /\ \E n, c \in Range(build.result.nodes) :
          /\ ~n.isPrimaryModel
          /\ c.depth = n.depth + 1
          /\ c.typename \in AcceptedTargets(build.allTypeData, n.typename, options)

\* the edges of the result that stand for field f of parent node P
EdgesFor(P, f) ==
    {i \in 1..Len(build.result.edges) :
        /\ build.result.edges[i].source = P.id
        /\ build.result.edges[i].id =
              P.id \o "-[" \o f.name \o "]-to-" \o build.result.edges[i].target}

\* the pairs (P, f) Pass 2 considers: a primary node and an accepted relationship field
EdgePairs ==
    {<<P, f>> \in UNION {{<<n, g>> : g \in Range(extractRelationshipFields(
                                               build.allTypeData[n.typename]))} :
                            n \in Range(build.result.nodes)} :
        /\ P.isPrimaryModel
        /\ filterAccepts(options, unwrapType(f.type).name)}

\* C3: for every primary node P and accepted relationship field f with target type C there
\* is an edge from P for f iff a node of type C exists at depth(P)+1, that edge targets
\* exactly that node, and no edge exists that does not correspond to such a pair.
C3_ExactEdges ==
    Done =>
        LET pairs == EdgePairs
        IN /\ \A pf \in pairs :
                 LET P == pf[1]
                     f == pf[2]
                     kids == {c \in Range(build.result.nodes) :
                                 /\ c.typename = unwrapType(f.type).name
                                 /\ c.depth = P.depth + 1}
                     found == EdgesFor(P, f)
                 IN IF kids = {} THEN found = {}
                    ELSE /\ Cardinality(kids) = 1
                         /\ Cardinality(found) = 1
                         /\ \A i \in found :
                               \A c \in kids : build.result.edges[i].target = c.id
           /\ \A e \in Range(build.result.edges) :
                 \E pf \in pairs :
                     /\ e.source = pf[1].id
                     /\ e.id = pf[1].id \o "-[" \o pf[2].name \o "]-to-" \o e.target

C3_Witness ==
    /\ Done
    /\ options.typeFilter.present
    /\ \E pf, qg \in EdgePairs :
          /\ pf[1] = qg[1]
          /\ EdgesFor(pf[1], pf[2]) # {}
          /\ EdgesFor(qg[1], qg[2]) = {}

\* C4: there is at most one node per (typename, depth) pair and node ids are pairwise
\* distinct, also when a list names a type twice or a type is reached through several parents.
C4_OneNodePerTypeAndDepth ==
    /\ Cardinality({n.id : n \in Range(build.nodes)}) = Len(build.nodes)
    /\ Cardinality({<<n.typename, n.depth>> : n \in Range(build.nodes)}) = Len(build.nodes)

C4_Witness ==
    /\ Done
    /\ Len(rootTypes) = 2 /\ rootTypes[1] = rootTypes[2]
    /\ \E n, m \in Range(build.result.nodes) : n.typename = m.typename /\ n.depth # m.depth
    /\ \E n \in Range(build.result.nodes) : n.typename = rootTypes[1]
    \* a type that two different processed types of one depth reference
    /\ \E L \in Range(build.depthLog) :
          \E p, q \in Range(L.processed) \cap L.known :
              /\ p # q
              /\ \E n \in Range(build.result.nodes) :
                    /\ n.depth = L.depth + 1
                    /\ n.typename \in AcceptedTargets(build.allTypeData, p, options)
                    /\ n.typename \in AcceptedTargets(build.allTypeData, q, options)

NodeWithId(id) == CHOOSE n \in Range(build.result.nodes) : n.id = id

\* C5: every node has 0 <= depth < maxDepth, every node at depth >= 1 has a type that
\* typeFilter accepts, and no edge targets a node of a rejected type or at depth >= maxDepth.
C5_DepthBoundedAndFiltered ==
    Done =>
        /\ \A n \in Range(build.result.nodes) :
              /\ 0 <= n.depth /\ n.depth < options.maxDepth
              /\ n.depth >= 1 => filterAccepts(options, n.typename)
        /\ \A e \in Range(build.result.edges) :
              \A n \in Range(build.result.nodes) :
                  n.id = e.target =>
                      /\ filterAccepts(options, n.typename)
                      /\ n.depth < options.maxDepth

C5_Witness ==
    /\ Done
    /\ options.typeFilter.present
    /\ build.result.edges # <<>>
    \* a node at the last depth whose accepted targets are cut off by maxDepth
    /\ \E n \in Range(build.result.nodes) :
          /\ n.depth = options.maxDepth - 1
          /\ AcceptedTargets(build.allTypeData, n.typename, options) \cap DOMAIN build.allTypeData # {}
    \* a node with a relationship field to a known type that the filter rejects
    /\ \E n \in Range(build.result.nodes) :
          \E f \in Range(extractRelationshipFields(build.allTypeData[n.typename])) :
              /\ ~filterAccepts(options, unwrapType(f.type).name)
              /\ unwrapType(f.type).name \in DOMAIN build.allTypeData

\* the root types whose type data is available: given by the caller or returned by the fetcher
ResolvableRoots ==
    {t \in Range(rootTypes) :
        \/ t \in DOMAIN typeData
        \/ \E r \in Range(build.responseLog) : t \in r.returned}

\* C6: with maxDepth = 1 the result has no edge and exactly one node per distinct root type
\* whose type data is available, each at depth 0 with isRoot = true, and no other node.
C6_MaxDepthOneRootsOnly ==
    (Done /\ options.maxDepth = 1) =>
        /\ build.result.edges = <<>>
        /\ {n.typename : n \in Range(build.result.nodes)} = ResolvableRoots
        /\ Len(build.result.nodes) = Cardinality(ResolvableRoots)
        /\ \A n \in Range(build.result.nodes) : n.depth = 0 /\ n.isRoot

C6_Witness ==
    /\ Done /\ options.maxDepth = 1
    /\ options.primaryModelChecker.present
    \* a root that was fetched, is primary and has a relationship field to itself
    /\ \E n \in Range(build.result.nodes) :
          /\ n.typename \notin DOMAIN typeData
          /\ n.isPrimaryModel
          /\ n.typename \in AcceptedTargets(build.allTypeData, n.typename, options)
    \* a root without type data
    /\ Range(rootTypes) \ ResolvableRoots # {}

\* C7: a frontier type whose type data is still absent after the depth's fetch does not
\* stop the build (the call stays in its loop, at its await or at its return; no step
\* reads the type data of a name that has none), gets no node at that depth and
\* contributes nothing to the next frontier: every name of the next frontier is
\* referenced by a processed type that has type data, and every node below depth 0 is in
\* the frontier computed for its depth (depthLog has one entry per finished depth).
C7_MissingTypeSkipped ==
    /\ build.pc \in {"loop", "await", "done"}
    /\ \A L \in Range(build.depthLog) :
          /\ \A T \in Range(L.processed) \ L.known :
                \A n \in Range(build.nodes) : ~(n.typename = T /\ n.depth = L.depth)
          /\ Range(L.next) \subseteq
                UNION {AcceptedTargets(build.allTypeData, P, options) :
                          P \in Range(L.processed) \cap L.known}
    /\ \A L \in Range(build.depthLog) :
          {n.typename : n \in {m \in Range(build.nodes) : m.depth = L.depth + 1}}
              \subseteq Range(L.next)
    /\ \A n \in Range(build.nodes) : n.depth <= Len(build.depthLog)

C7_Witness ==
    /\ Done
    /\ hasFetcher
    /\ \E L \in Range(build.depthLog) :
          \E T \in Range(L.processed) \ L.known :
              \* T was requested and the fetch missed it; the server has it
              /\ T \in DOMAIN Schemas[world]
              /\ L.depth + 1 < options.maxDepth
              \* a type only T references is accepted by the filter and has no node
              /\ \E C \in AcceptedTargets(Schemas[world], T, options) :
                    /\ C \in DOMAIN Schemas[world]
                    /\ C \notin Range(L.next)
                    /\ \A n \in Range(build.result.nodes) : n.depth = L.depth + 1 => n.typename # C

-----------------------------------------------------------------------------
(* Properties of the App's graph build effect (checked under AppSpec) *)

\* C9: a build whose parameters (root type, typeData, depth, type filter) changed while
\* it was running never writes graphData: the published graphData is empty, or it is
\* the result of a build that was started with the parameters current when it was
\* published and that saw no parameter change while in flight
C9_StaleBuildNeverPublishes ==
    IF app.graphData.by = 0
    THEN app.graphData.nodes = <<>> /\ app.graphData.edges = <<>>
    ELSE /\ ~app.graphData.wasStale
         /\ app.graphData.builtWith = app.graphData.publishedUnder

\* a build was overtaken by a parameter change and dropped on arrival, and a later
\* build has published its graph
C9_Witness ==
    /\ app.droppedStale
    /\ app.graphData.by # 0
    /\ Len(app.graphData.nodes) > 0

-----------------------------------------------------------------------------
(* Properties of buildFKLookupMap (checked under FKSpec) *)

\* rows 1..n of the input whose two tables are mapped
MappedRow(j) ==
    /\ tableToType(fk.nameMapper, fk.foreignKeys[j].source_table) # ""
    /\ tableToType(fk.nameMapper, fk.foreignKeys[j].target_table) # ""

\* row j produces a key that an earlier row inserted
Collides(j) ==
    /\ MappedRow(j)
    /\ forwardKey(fk.nameMapper, fk.foreignKeys[j]) \in DOMAIN fk.before[j].lookup

\* the lookup and the error count after row j
AfterRow(j) ==
    IF j < Len(fk.before) THEN fk.before[j + 1]
    ELSE [lookup |-> fk.lookup, parseErrors |-> fk.stats.parseErrors]

\* C10: a row whose key "Type.field" an earlier row already inserted leaves the lookup
\* exactly as it was and adds one to parseErrors; so every entry is the one the first
\* row with its key wrote
C10_FirstWriteWins ==
    /\ \A j \in DOMAIN fk.before :
          Collides(j) =>
             /\ AfterRow(j).lookup = fk.before[j].lookup
             /\ AfterRow(j).parseErrors = fk.before[j].parseErrors + 1
    /\ \A key \in DOMAIN fk.lookup :
          \E j \in DOMAIN fk.before :
             /\ MappedRow(j)
             /\ forwardKey(fk.nameMapper, fk.foreignKeys[j]) = key
             /\ \A i \in 1..(j - 1) :
                   MappedRow(i) => forwardKey(fk.nameMapper, fk.foreignKeys[i]) # key
             /\ fk.lookup[key] = forwardMeta(fk.foreignKeys[j])

\* a later, different row produced the key of an earlier row and the run has returned
C10_Witness ==
    /\ fk.pc = "done"
    /\ \E j \in DOMAIN fk.before :
          /\ Collides(j)
          /\ fk.before[j].lookup[forwardKey(fk.nameMapper, fk.foreignKeys[j])].original
                # fk.foreignKeys[j]

\* C11: a row whose source or target table has no type mapping adds no entry, adds
\* exactly one to parseErrors, and the rows after it are still processed (the run
\* returns only after every row had its iteration)
C11_UnmappedRowSkipped ==
    /\ \A j \in DOMAIN fk.before :
          ~MappedRow(j) =>
             /\ AfterRow(j).lookup = fk.before[j].lookup
             /\ AfterRow(j).parseErrors = fk.before[j].parseErrors + 1
    /\ fk.pc = "done" => Len(fk.before) = Len(fk.foreignKeys)
    /\ \A j \in DOMAIN fk.before :
          (MappedRow(j) /\ ~Collides(j)) =>
             forwardKey(fk.nameMapper, fk.foreignKeys[j]) \in DOMAIN AfterRow(j).lookup

\* a row with an unmapped target table (its source table is mapped) was skipped and a
\* row after it was inserted
C11_Witness ==
    /\ fk.pc = "done"
    /\ \E j \in DOMAIN fk.before :
          /\ tableToType(fk.nameMapper, fk.foreignKeys[j].source_table) # ""
          /\ tableToType(fk.nameMapper, fk.foreignKeys[j].target_table) = ""
          /\ \E i \in (j + 1)..Len(fk.before) :
                Cardinality(DOMAIN AfterRow(i).lookup)
                   > Cardinality(DOMAIN fk.before[i].lookup)

\* C12: every entry has direction 'forward', is stored under
\* tableToType(source_table) + '.' + inferFieldName(source_column), and has cardinality
\* 'many-to-many' exactly when isJunctionTable(source_table) and 'many-to-one' otherwise
\* (self-references included); the lookup has at most one entry per input row
C12_ForwardEntriesOnly ==
    /\ \A key \in DOMAIN fk.lookup :
          LET e == fk.lookup[key]
          IN /\ e.direction = "forward"
             /\ key = tableToType(fk.nameMapper, e.original.source_table) \o "."
                         \o inferFieldName(e.original.source_column)
             /\ e.cardinality \in {"many-to-many", "many-to-one"}
             /\ e.cardinality = "many-to-many" <=> isJunctionTable(e.original.source_table)
             /\ \E j \in DOMAIN fk.before : fk.foreignKeys[j] = e.original
    /\ Cardinality(DOMAIN fk.lookup) <= Len(fk.before)

\* the lookup holds a junction-table entry and a self-reference entry
C12_Witness ==
    /\ fk.pc = "done"
    /\ \E k1, k2 \in DOMAIN fk.lookup :
          /\ fk.lookup[k1].cardinality = "many-to-many"
          /\ isSelfReference(fk.lookup[k2].original)
          /\ fk.lookup[k2].cardinality = "many-to-one"

-----------------------------------------------------------------------------
(* Properties of buildNameMapper (checked under NameMapperSpec) *)

\* C13: after buildNameMapper the mapper is 1:1 in each direction: tableToType(t) = T
\* implies typeToTable(T) = t, and for a type T of the list typeToTable(T) = t implies
\* tableToType(t) = T
C13_OneToOne ==
    mapper.pc = "done" =>
       /\ \A t \in DOMAIN mapper.tableToTypeMap :
             typeToTable(mapper, tableToType(mapper.tableToTypeMap, t)) = t
       /\ \A j \in DOMAIN mapper.typenames :
             LET t == typeToTable(mapper, mapper.typenames[j])
             IN t # "" => tableToType(mapper.tableToTypeMap, t) = mapper.typenames[j]

-----------------------------------------------------------------------------
(* Properties of enhanceEdgeWithFK (checked under EnhanceSpec) *)

EntryFound ==
    /\ enh.fkLookup.present
    /\ (enh.sourceType \o "." \o enh.fieldName) \in DOMAIN enh.fkLookup.map

\* C14: the returned edge has isFK = true with the entry's direction, cardinality,
\* sourceTable, targetTable and isJunctionTable exactly when the lookup is non-null and
\* has the key "{sourceType}.{fieldName}", and isFK = false otherwise; id, source and
\* target are those of the input edge and the input edge object is not changed
C14_EnhanceStamps ==
    enh.pc = "done" =>
       /\ enh.result.hasData
       /\ enh.result.data.isFK = EntryFound
       /\ EntryFound =>
             LET e == enh.fkLookup.map[enh.sourceType \o "." \o enh.fieldName]
             IN /\ enh.result.data.direction = e.direction
                /\ enh.result.data.cardinality = e.cardinality
                /\ enh.result.data.sourceTable = e.sourceTable
                /\ enh.result.data.targetTable = e.targetTable
                /\ enh.result.data.isJunctionTable = e.isJunctionTable
       /\ enh.result.id = enh.passed.id
       /\ enh.result.source = enh.passed.source
       /\ enh.result.target = enh.passed.target
       /\ enh.edge = enh.passed

\* an edge without data was enhanced from an entry of the lookup
C14_Witness ==
    /\ enh.pc = "done"
    /\ EntryFound
    /\ ~enh.passed.hasData
    /\ enh.result.data.isFK

-----------------------------------------------------------------------------
(* Properties of the type fetcher (checked under FetcherSpec) *)

\* the names whose introspectType request returned the type in this step
SettledOk ==
    {n \in FetchNames :
        \E i \in DOMAIN calls : \E k \in calls[i].pending :
           /\ calls[i].missingTypes[k] = n
           /\ k \notin calls'[i].pending
           /\ calls'[i].outcomes[k] = "ok"}

\* an introspectType request failed in this step
SettledFailed ==
    \E i \in DOMAIN calls : \E k \in calls[i].pending :
       k \notin calls'[i].pending /\ calls'[i].outcomes[k] = "failed"

\* C15: the cache only grows between clearCache calls: no step but clearCache removes or
\* changes an entry, an entry appears only in the step in which introspectType for its
\* name succeeded, a failed fetch leaves the cache as it was, and fetchType for a cached
\* name returns the cached value with fromCache = true without a request
C15_CacheGrows ==
    [][ /\ cache'.cleared = cache.cleared =>
              \A n \in DOMAIN cache.types :
                 n \in DOMAIN cache'.types /\ cache'.types[n] = cache.types[n]
        /\ \A n \in (DOMAIN cache'.types) \ (DOMAIN cache.types) : n \in SettledOk
        /\ SettledFailed => cache'.types = cache.types
        /\ (Len(calls') > Len(calls) /\ calls'[Len(calls')].kind = "single"
               /\ calls'[Len(calls')].typenames[1] \in DOMAIN cache.types) =>
              LET call == calls'[Len(calls')]
              IN /\ call.pc = "done"
                 /\ call.result.hasType
                 /\ call.result.fromCache
                 /\ call.result.type = cache.types[call.typenames[1]]
                 /\ call.requests = 0
                 /\ cache' = cache
      ]_vars

\* a type was fetched from the server, which created its entry, and a later fetchType
\* for it was served from the cache
C15_Witness ==
    \E i, j \in DOMAIN calls :
       /\ i < j
       /\ calls[j].kind = "single" /\ calls[j].pc = "done" /\ calls[j].result.fromCache
       /\ calls[j].requests = 0
       /\ \E k \in 1..Len(calls[i].missingTypes) :
             /\ calls[i].missingTypes[k] = calls[j].typenames[1]
             /\ calls[i].outcomes[k] = "ok"

\* C16: the result map of fetchMultipleTypes has an entry for every requested name that
\* was cached when the call started or whose introspection succeeded, and omits the names
\* whose introspection failed
C16_BatchResult ==
    \A i \in DOMAIN calls :
       (calls[i].kind = "multi" /\ calls[i].pc = "done") =>
          \A n \in Range(calls[i].typenames) :
             LET reqs == {k \in 1..Len(calls[i].missingTypes) : calls[i].missingTypes[k] = n}
             IN /\ (n \in DOMAIN calls[i].cacheAtCall
                      \/ \E k \in reqs : calls[i].outcomes[k] = "ok")
                   => n \in DOMAIN calls[i].resultMap
                /\ (n \notin DOMAIN calls[i].cacheAtCall
                      /\ \A k \in reqs : calls[i].outcomes[k] = "failed")
                   => n \notin DOMAIN calls[i].resultMap

-----------------------------------------------------------------------------
(* Further properties of buildGraphFromIntrospection (checked under Spec) *)

NodeView(n) ==
    [id |-> n.id, typename |-> n.typename, depth |-> n.depth, isRoot |-> n.isRoot,
     isPrimaryModel |-> n.isPrimaryModel]

EdgeView(e) == [id |-> e.id, source |-> e.source, target |-> e.target]

\* the caller's type data holds every type the traversal processed
WarmRun == \A i \in DOMAIN build.depthLog :
              Range(build.depthLog[i].processed) \subseteq DOMAIN typeData

RECURSIVE SumReturned(_)
SumReturned(log) ==
    IF log = <<>> THEN 0
    ELSE Cardinality(log[1].returned) + SumReturned(Tail(log))

NodesAtDepth(d) == Cardinality({i \in DOMAIN build.result.nodes : build.result.nodes[i].depth = d})

\* C18: the returned stats are exact: totalNodes and totalEdges are the lengths of the
\* node and edge lists, nodesPerDepth[d] is the number of nodes at depth d (depths
\* without an entry have no node), and typesFetched is the number of types returned by
\* all fetcher calls of the build
C18_StatsExact ==
    Done =>
       LET st == build.result.stats
       IN /\ st.totalNodes = Len(build.result.nodes)
          /\ st.totalEdges = Len(build.result.edges)
          /\ \A d \in DOMAIN st.nodesPerDepth : st.nodesPerDepth[d] = NodesAtDepth(d)
          /\ \A d \in 0..MaxDepthBound : d \notin DOMAIN st.nodesPerDepth => NodesAtDepth(d) = 0
          /\ st.typesFetched = SumReturned(build.responseLog)

\* nodes at two depths, and a fetcher call that returned fewer types than requested
C18_Witness ==
    /\ Done
    /\ Cardinality(DOMAIN build.result.stats.nodesPerDepth) >= 2
    /\ build.result.stats.typesFetched > 0
    /\ \E i \in DOMAIN build.responseLog :
          Cardinality(build.responseLog[i].returned) < Len(build.requestLog[i].requested)

RECURSIVE SkippedOf(_)
SkippedOf(nodes) ==
    IF nodes = <<>> THEN 0
    ELSE IF Len(nodes) = 1
    THEN (IF nodes[1].isPrimaryModel THEN 0
          ELSE Len(SelectSeq(build.allTypeData[nodes[1].typename].fields, isRelationship)))
    ELSE SkippedOf(Left(nodes)) + SkippedOf(Right(nodes))

SpecCacheRun ==
    /\ world = 1 /\ rootTypes = <<"DeviceType">> /\ options.maxDepth = 2
    /\ DOMAIN typeData = DOMAIN DeviceSchema /\ ~options.typeFilter.present

\* C19: edgesSkippedNonPrimary is the sum over the non-primary nodes of the number of
\* relationship fields of the node's type, counted without typeFilter and whether or
\* not a child node exists. For the spec's cache, root DeviceType and depth 2: 3 nodes,
\* 2 edges and 0 skipped when only DeviceType is primary; 3 nodes, 0 edges and 2 skipped
\* when nothing is primary
C19_SkippedCount ==
    Done =>
       LET st == build.result.stats
           primary == IF options.primaryModelChecker.present
                      THEN options.primaryModelChecker.accept ELSE {}
       IN /\ st.edgesSkippedNonPrimary = SkippedOf(build.result.nodes)
          /\ (SpecCacheRun /\ primary = {"DeviceType"}) =>
                st.totalNodes = 3 /\ st.totalEdges = 2 /\ st.edgesSkippedNonPrimary = 0
          /\ (SpecCacheRun /\ primary = {}) =>
                st.totalNodes = 3 /\ st.totalEdges = 0 /\ st.edgesSkippedNonPrimary = 2

\* a non-primary node is counted with a field typeFilter rejects, next to a primary node
\* that has edges
C19_Witness ==
    /\ Done
    /\ options.typeFilter.present
    /\ build.result.edges # <<>>
    /\ \E n \in Range(build.result.nodes) :
          /\ ~n.isPrimaryModel
          /\ \E f \in Range(extractRelationshipFields(build.allTypeData[n.typename])) :
                ~filterAccepts(options, unwrapType(f.type).name)

\* C20 as stated: without a primaryModelChecker every node is non-primary, there is no
\* edge, and the node list holds only the root nodes at depth 0, whatever maxDepth is
C20_IsolatedRootsOnly ==
    (Done /\ ~options.primaryModelChecker.present) =>
       /\ \A n \in Range(build.result.nodes) : ~n.isPrimaryModel
       /\ build.result.edges = <<>>
       /\ \A n \in Range(build.result.nodes) : n.depth = 0 /\ n.isRoot

\* C20 amended: without a primaryModelChecker every node is non-primary and there is no
\* edge; the node list is the one Pass 1 makes, the same as with a checker that accepts
\* nothing or anything (roots at depth 0 and the referenced types below them)
C20_NoCheckerNoEdges ==
    (Done /\ ~options.primaryModelChecker.present) =>
       /\ \A n \in Range(build.result.nodes) : ~n.isPrimaryModel
       /\ build.result.edges = <<>>
       /\ \A n \in Range(build.result.nodes) : n.isRoot <=> n.depth = 0
       /\ build.result.stats.totalEdges = 0

\* a run without a checker that has nodes below the roots
C20_Witness ==
    /\ Done /\ ~options.primaryModelChecker.present
    /\ \E n \in Range(build.result.nodes) : n.depth > 0

-----------------------------------------------------------------------------
(* The filter selection of the App (checked under AppSpec) *)

\* the selection a build was started under, read back from its typeFilter
SelectionOf(params) ==
    IF params.options.typeFilter.present THEN params.options.typeFilter.accept
    ELSE AvailableFilterTypes

RequestedBy(b) == UNION {Range(b.requestLog[i].requested) : i \in DOMAIN b.requestLog}

\* C21: the selected filter types are an allowlist for traversal: every non-root node of
\* a built graph has a type of the selection the graph was built under, and a build
\* requests no type other than its root and types of its selection
C21_FilterIsAllowlist ==
    /\ app.graphData.by # 0 =>
          \A n \in Range(app.graphData.nodes) :
             n.isRoot \/ n.typename \in SelectionOf(app.graphData.builtWith)
    /\ \A i \in DOMAIN inflight :
          inflight[i].kind = "build" =>
             RequestedBy(inflight[i].b) \subseteq
                {inflight[i].params.root} \cup SelectionOf(inflight[i].params)

-----------------------------------------------------------------------------
(* inferFieldName and isJunctionTable (checked under InferSpec) *)

\* C22: inferFieldName applies its rules in order and the first match wins: the table
\* value for a special-cased column, else the camel-cased remainder of a column ending
\* in '_id', else the camel-cased column; 'manufacturer_id' gives 'manufacturer' and
\* 'device_type_id' gives 'deviceType'
C22_RuleOrder ==
    infer.inferred =>
       LET c == infer.columnName
       IN /\ infer.fieldName =
                (IF c \in DOMAIN specialCases THEN specialCases[c]
                 ELSE IF endsWith(c, "_id") THEN snakeToCamel(SubSeq(c, 1, Len(c) - 3))
                 ELSE snakeToCamel(c))
          /\ c = "manufacturer_id" => infer.fieldName = "manufacturer"
          /\ c = "device_type_id" => infer.fieldName = "deviceType"

Underscores(str) == Cardinality({i \in 1..Len(str) : charAt(str, i) = "_"})

\* C23: isJunctionTable(table) is true iff the name contains '_to_', or ends with one of
\* the plural association suffixes, or has at least 3 segments of which the last ends
\* in 's'; 'interface_tagged_vlans' is a junction table and 'device' is not
C23_JunctionRule ==
    infer.checked =>
       LET t == infer.tableName
           connector == \E i \in 1..Len(t) : i + 3 <= Len(t) /\ SubSeq(t, i, i + 3) = "_to_"
           suffixed == \E sfx \in junctionSuffixes :
                          Len(t) >= Len(sfx) /\ SubSeq(t, Len(t) - Len(sfx) + 1, Len(t)) = sfx
           plural == Underscores(t) >= 2 /\ Len(t) >= 1 /\ charAt(t, Len(t)) = "s"
       IN /\ infer.junction <=> (connector \/ suffixed \/ plural)
          /\ (Underscores(t) < 2 /\ ~connector /\ ~suffixed) => ~infer.junction
          /\ t = "interface_tagged_vlans" => infer.junction
          /\ t = "device" => ~infer.junction

\* the fallback rule alone decided a three-segment name
C23_Witness ==
    /\ infer.checked
    /\ infer.tableName = "dcim_device_bays"
    /\ infer.junction

-----------------------------------------------------------------------------
(* Order of the depth levels (checked under Spec) *)

\* the working type data when request i was made
KnownAtRequest(i) ==
    DOMAIN typeData \cup UNION {build.responseLog[k].returned : k \in 1..(i - 1)}

\* C24: the fetcher is called at most once per depth, with a non-empty list of names
\* absent from the working type data; a call is made only when every earlier call has
\* resolved and was merged and every earlier depth has its nodes; Pass 2 runs after the
\* last depth
C24_DepthsOrdered ==
    LET rq == build.requestLog
        rs == build.responseLog
        dl == build.depthLog
    IN /\ \A i, j \in DOMAIN rq : i < j => rq[i].depth < rq[j].depth
       /\ \A i \in DOMAIN rq :
             /\ rq[i].requested # <<>>
             /\ Range(rq[i].requested) \cap KnownAtRequest(i) = {}
       /\ Len(rs) = (IF build.pc = "await" THEN Len(rq) - 1 ELSE Len(rq))
       /\ \A i \in DOMAIN rs :
             /\ rs[i].depth = rq[i].depth
             /\ rs[i].returned \subseteq DOMAIN build.allTypeData
       /\ build.pc = "await" => rq[Len(rq)].depth = build.depth
       /\ Len(dl) = build.depth
       /\ \A k \in DOMAIN dl :
             /\ dl[k].depth = k - 1
             /\ \A t \in Range(dl[k].processed) :
                   t \in dl[k].known =>
                      \E n \in Range(build.nodes) : n.typename = t /\ n.depth = k - 1
       /\ \A n \in Range(build.nodes) : n.depth < build.depth
       /\ build.pc # "done" => build.edges = <<>>
       /\ build.pc = "done" => Len(rs) = Len(rq) /\ ~LoopContinues(build, options)

\* a finished build with fetcher calls at two depths and edges
C24_Witness ==
    /\ Done
    /\ Len(build.requestLog) >= 2
    /\ build.requestLog[1].depth + 1 = build.requestLog[2].depth
    /\ build.edges # <<>>

-----------------------------------------------------------------------------
(* Connectedness when everything is primary (checked under Spec) *)

AcceptsAll ==
    /\ options.primaryModelChecker.present
    /\ DOMAIN Schemas[world] \subseteq options.primaryModelChecker.accept

\* the ids reached from the nodes of depth 0 in at most k steps along edges that go
\* from one depth to the next
RECURSIVE ReachedWithin(_)
ReachedWithin(k) ==
    IF k = 0 THEN {n.id : n \in {m \in Range(build.result.nodes) : m.depth = 0}}
    ELSE LET prev == ReachedWithin(k - 1)
         IN prev \cup
            {e.target : e \in {f \in Range(build.result.edges) :
                /\ f.source \in prev
                /\ \E p, c \in Range(build.result.nodes) :
                      p.id = f.source /\ c.id = f.target /\ c.depth = p.depth + 1}}

\* C25: if primaryModelChecker accepts every type, every node at depth d >= 1 is the
\* target of an edge whose source is a node at depth d - 1, and every node is reached
\* from a root along edges that each go from one depth to the next
C25_EveryNodeHasParent ==
    (Done /\ AcceptsAll) =>
       /\ \A n \in Range(build.result.nodes) :
             n.depth >= 1 =>
                \E e \in Range(build.result.edges) :
                   /\ e.target = n.id
                   /\ \E p \in Range(build.result.nodes) :
                         p.id = e.source /\ p.depth = n.depth - 1
       /\ {n.id : n \in Range(build.result.nodes)} \subseteq ReachedWithin(MaxDepthBound)

\* everything primary and a node two levels below the roots
C25_Witness ==
    /\ Done /\ AcceptsAll
    /\ \E n \in Range(build.result.nodes) : n.depth >= 2

-----------------------------------------------------------------------------
(* Independence of Pass 1 from the primary-model predicate (checked under Spec) *)

AnswersOf(b) == [i \in DOMAIN b.responseLog |-> b.responseLog[i].returned]

RequestsOf(b) == [i \in DOMAIN b.requestLog |-> b.requestLog[i].requested]

Unflagged(nodes) == [i \in DOMAIN nodes |-> [nodes[i] EXCEPT !.isPrimaryModel = FALSE]]

\* C26: the nodes created and the fetcher calls made do not depend on
\* primaryModelChecker: a build that differs only in that predicate, its fetcher
\* answering alike, has the same nodes up to isPrimaryModel, the same requests and the
\* same stats but for totalEdges and edgesSkippedNonPrimary
C26_PrimaryIndependent ==
    Done =>
       \A checker \in PrimaryChoices(world) \ {options.primaryModelChecker} :
          LET other == runWithAnswers(NewBuild(rootTypes, typeData),
                                      [options EXCEPT !.primaryModelChecker = checker],
                                      hasFetcher, AnswersOf(build))
          IN /\ Unflagged(other.result.nodes) = Unflagged(build.result.nodes)
             /\ RequestsOf(other) = RequestsOf(build)
             /\ AnswersOf(other) = AnswersOf(build)
             /\ other.result.stats.totalNodes = build.result.stats.totalNodes
             /\ other.result.stats.nodesPerDepth = build.result.stats.nodesPerDepth
             /\ other.result.stats.filteredNodes = build.result.stats.filteredNodes
             /\ other.result.stats.typesFetched = build.result.stats.typesFetched

\* a build with fetcher calls and nodes below the roots of which some but not all are primary
C26_Witness ==
    /\ Done
    /\ build.requestLog # <<>>
    /\ \E n, m \in Range(build.result.nodes) :
          n.depth >= 1 /\ n.isPrimaryModel /\ ~m.isPrimaryModel
    /\ build.result.edges # <<>>

-----------------------------------------------------------------------------
(* Depth filtering against rebuilding (checked under Spec) *)

IdsOf(items) == {items[i].id : i \in DOMAIN items}

\* C27: for 1 <= d <= D, filterByDepth with d on the result of a build with maxDepth D
\* has the node ids and edge ids of a build with maxDepth d whose fetcher answers alike
\* (for d < D that is a second build, for d = D the build itself, whose lists come back
\* unchanged); no returned edge has an end outside the returned nodes; with d >= D the
\* nodes and edges come back unchanged
C27_FilterAgreesWithRebuild ==
    Done =>
       \A d \in 1..(MaxDepthBound + 1) :
          LET shown == filterByDepth(build.result.nodes, build.result.edges, d)
              rebuilt == runWithAnswers(NewBuild(rootTypes, typeData),
                                        [options EXCEPT !.maxDepth = d],
                                        hasFetcher, AnswersOf(build))
          IN /\ d < options.maxDepth =>
                   /\ IdsOf(shown.filteredNodes) = IdsOf(rebuilt.result.nodes)
                   /\ IdsOf(shown.filteredEdges) = IdsOf(rebuilt.result.edges)
             /\ \A e \in Range(shown.filteredEdges) :
                   /\ e.source \in IdsOf(shown.filteredNodes)
                   /\ e.target \in IdsOf(shown.filteredNodes)
             /\ d >= options.maxDepth =>
                   /\ shown.filteredNodes = build.result.nodes
                   /\ shown.filteredEdges = build.result.edges

\* a build three levels deep with edges at two levels and a fetcher call below the roots,
\* so that filtering to depth 2 removes nodes and edges
C27_Witness ==
    /\ Done
    /\ options.maxDepth = 3
    /\ \E n \in Range(build.result.nodes) : n.depth = 2
    /\ \E i \in DOMAIN build.requestLog : build.requestLog[i].depth = 2
    /\ Len(filterByDepth(build.result.nodes, build.result.edges, 2).filteredEdges)
          \in 1..(Len(build.result.edges) - 1)

-----------------------------------------------------------------------------
(* The counters of buildFKLookupMap (checked under FKSpec) *)

\* C28: every input row is accounted for exactly once: after any number of rows
\* forwardFKs + parseErrors is the number of rows processed, at the end it is totalFKs
\* (the number of input rows), and the lookup has forwardFKs entries
C28_RowsAccounted ==
    /\ fk.stats.forwardFKs + fk.stats.parseErrors = fk.next - 1
    /\ Cardinality(DOMAIN fk.lookup) = fk.stats.forwardFKs
    /\ fk.stats.totalFKs = Len(fk.foreignKeys)
    /\ fk.pc = "done" => fk.stats.forwardFKs + fk.stats.parseErrors = fk.stats.totalFKs

\* a finished call that inserted a row, skipped an unmapped row and refused a duplicate
C28_Witness ==
    /\ fk.pc = "done"
    /\ fk.stats.forwardFKs >= 1
    /\ \E j \in DOMAIN fk.before : ~MappedRow(j)
    /\ \E j \in DOMAIN fk.before : Collides(j)

-----------------------------------------------------------------------------
(* The caller's type data (checked under Spec) *)

\* C29: buildGraphFromIntrospection leaves the caller's type data map unchanged: no step
\* of the build changes its keys or values, also when types are fetched at several depths
C29_CallerMapUnchanged == [][typeData' = typeData]_vars

\* types fetched at two depths were merged into the working set, not into the caller's map
C29_Witness ==
    /\ Done
    /\ \E i, j \in DOMAIN build.responseLog :
          /\ i < j
          /\ build.responseLog[i].returned # {}
          /\ build.responseLog[j].returned # {}
    /\ DOMAIN typeData # DOMAIN build.allTypeData

-----------------------------------------------------------------------------
(* Termination and size of a build (checked under Spec) *)

BuildBounded ==
    /\ build.depth <= options.maxDepth
    /\ Len(build.depthLog) <= options.maxDepth
    /\ Len(build.requestLog) <= options.maxDepth
    /\ Len(build.nodes) <= options.maxDepth * Cardinality(DOMAIN build.allTypeData)

\* how far the call has come: two units per depth, one more while awaiting the fetcher
Progress(b) ==
    IF b.pc = "done" THEN 2 * options.maxDepth + 2
    ELSE 2 * b.depth + (IF b.pc = "await" THEN 1 ELSE 0)

\* the call is not blocked: it is at the loop head, or awaits a fetcher call that resolves
CanStep ==
    \/ build.pc = "loop"
    \/ build.pc = "await" /\ FetchResponses(world, build.typesToFetch) # {}

\* C30: for every schema, cyclic and self-referencing ones included, and a fetcher whose
\* calls resolve, the build terminates: it is never blocked before it returns and every
\* step moves it forward on a scale that ends at 2 * maxDepth + 2; it makes at most
\* maxDepth depth iterations and at most maxDepth fetcher calls and has at most maxDepth
\* times the number of type names with type data as nodes
C30_TerminatesBounded ==
    /\ []BuildBounded
    /\ [](Done \/ CanStep)
    /\ [](Progress(build) <= 2 * options.maxDepth + 2)
    /\ [][Progress(build') > Progress(build)]_vars

\* a finished build on the cyclic schema that ran maxDepth = 3 iterations, the self
\* reference processed at each depth, with a fetcher call at every depth
C30_Witness ==
    /\ Done
    /\ world = 2
    /\ options.maxDepth = 3
    /\ Len(build.depthLog) = 3
    /\ Len(build.requestLog) = 3
    /\ \A k \in 1..3 : "SiteType" \in Range(build.depthLog[k].processed)

====
